---- MODULE Spec2Model ----
(***************************************************************************)
(* Model of the objective pipeline of DESC:                                *)
(*   desc/objectives/objective_funs.py   ObjectiveFunction, _Objective     *)
(*   desc/objectives/linear_objectives.py  FixedBoundaryR/Z, FixedPressure,*)
(*                                         FixedIota, FixedPsi             *)
(*   desc/derivatives.py                 the derivative strategies         *)
(* Arrays hold exact rationals (float64 without rounding); the tolerances  *)
(* of the text ("within 1e-8") are therefore exact equalities here.        *)
(***************************************************************************)
EXTENDS Integers, Sequences, FiniteSets, TLC

VARIABLES eq, objectives, constraints, self, call, derivative, heap

vars == <<eq, objectives, constraints, self, call, derivative, heap>>

-----------------------------------------------------------------------------
(* Bounds of the model.                                                    *)

\* number of boundary modes of the surface (and of parameters of a profile)
NumModes == 2
\* largest number of constraints handed to an ObjectiveFunction
MaxCons == 2
\* largest number of positional arguments of a differentiated function
MaxArgs == 3
\* largest number of compute calls on one BroydenJacobian
MaxSteps == 2
\* largest output dimension N of a function differentiated in blocks
MaxRows == 4
\* number of boundary modes of the surface with "5 boundary coefficients"
ScenarioModes == 5
\* entries of the probe vectors x and y range over 0..MaxVal
MaxVal == 1

-----------------------------------------------------------------------------
(* Numbers: a rational is <<n, d>> with d > 0 in lowest terms.             *)

Abs(i) == IF i < 0 THEN -i ELSE i

RECURSIVE Gcd(_, _)
Gcd(a, b) == IF b = 0 THEN a ELSE Gcd(b, a % b)

\* n/d in lowest terms with a positive denominator, g = gcd(|n|, |d|)
Lowest(n, d, g) ==
    IF d < 0 THEN <<(0 - n) \div g, (0 - d) \div g>> ELSE <<n \div g, d \div g>>

Q(n, d) == Lowest(n, d, Gcd(Abs(n), Abs(d)))

R(i) == <<i, 1>>

\* Python's None inside an object array (np.atleast_1d(None))
None == <<0, 0>>

QAdd(a, b) == Q(a[1] * b[2] + b[1] * a[2], a[2] * b[2])
QSub(a, b) == Q(a[1] * b[2] - b[1] * a[2], a[2] * b[2])
QMul(a, b) == Q(a[1] * b[1], a[2] * b[2])
QDiv(a, b) == Q(a[1] * b[2], a[2] * b[1])

RECURSIVE QSum(_)
QSum(s) == IF s = <<>> THEN R(0) ELSE QAdd(Head(s), QSum(Tail(s)))

-----------------------------------------------------------------------------
(* One-dimensional arrays are sequences, matrices are sequences of rows.   *)

Range(s) == {s[i] : i \in 1..Len(s)}

Zeros(n) == [i \in 1..n |-> R(0)]

\* np.repeat(v, n)
Repeat(v, n) == [i \in 1..n |-> v]

\* a[idx] for an index array idx (indices are 1-based in the model)
Take(a, idx) == [k \in 1..Len(idx) |-> a[idx[k]]]

VAdd(u, v) == [i \in 1..Len(u) |-> QAdd(u[i], v[i])]
VSub(u, v) == [i \in 1..Len(u) |-> QSub(u[i], v[i])]
VMul(u, v) == [i \in 1..Len(u) |-> QMul(u[i], v[i])]

Dot(u, v) == QSum([i \in 1..Len(u) |-> QMul(u[i], v[i])])

\* M @ v for a matrix M (rows) and a vector v
MatVec(M, v) == [i \in 1..Len(M) |-> Dot(M[i], v)]

\* M.T of a matrix with ncols columns
Transpose(M, ncols) == [j \in 1..ncols |-> [i \in 1..Len(M) |-> M[i][j]]]

\* np.eye(n)
Eye(n) == [i \in 1..n |-> [j \in 1..n |-> IF i = j THEN R(1) ELSE R(0)]]

\* np.hstack / np.vstack of two blocks
HStack(A, B) == [i \in 1..Len(A) |-> A[i] \o B[i]]

-----------------------------------------------------------------------------
(* The canonical argument order (desc.compute.arg_order) and the           *)
(* equilibrium an objective is built for.                                  *)

arg_order == <<"R_lmn", "Z_lmn", "L_lmn", "Rb_lmn", "Zb_lmn", "p_l", "i_l", "Psi">>

ArgSet == Range(arg_order)

\* An equilibrium: boundary surface coefficients, profile parameters, flux.
\* bmodes are the surface basis' mode numbers in basis order, pmodes the
\* power series' (ascending in l); a mode number is abstracted to its rank
\* in the lexicographic order np.intersect1d sorts by.
Equilibrium(s, nb) ==
    [Rb     |-> [k \in 1..nb |-> R(s + k + 2)],
     Zb     |-> [k \in 1..nb |-> R(0 - s - k - 2)],
     p_l    |-> [k \in 1..NumModes |-> R(2 * s + k + 5)],
     i_l    |-> [k \in 1..NumModes |-> R(0 - 2 * s - k - 5)],
     Psi    |-> R(s + 3),
     bmodes |-> [k \in 1..nb |-> nb + 1 - k],
     pmodes |-> [k \in 1..NumModes |-> k],
     nint   |-> nb + 1]

\* the equilibria with nb boundary modes
Equilibria(nb) == {Equilibrium(s, nb) : s \in 0..1}

-----------------------------------------------------------------------------
(* _Objective and its linear subclasses.                                   *)

NoError == "none"
IndexError == "IndexError"
ErrTarget == "ValueError: len(target) != dim_f"
ErrWeight == "ValueError: len(weight) != dim_f"
AttributeError == "AttributeError"

FixedKinds == {"FixedBoundaryR", "FixedBoundaryZ", "FixedPressure", "FixedIota"}

\* _Objective.__init__ reached through a subclass constructor; target and
\* weight are sequences already (np.atleast_1d), modes=True is allmodes.
\* arg_target and arg_weight keep what the caller passed, for reference.
\* grid is the name of self.grid ("" for None), profile the position in the
\* heap of self.profile (0 for None), profiles the positions of the profiles
\* among self.inputs.
Objective(kind, target, weight, allmodes, modes) ==
    [kind |-> kind, allmodes |-> allmodes, modes |-> modes,
     arg_target |-> target, arg_weight |-> weight,
     target |-> target, weight |-> weight,
     built |-> FALSE, hasdim |-> FALSE, dim_f |-> 0, idx |-> <<>>,
     args |-> <<>>, dimensions |-> [a \in ArgSet |-> 0],
     derivatives |-> [a \in ArgSet |-> <<>>], err |-> NoError,
     grid |-> "", profile |-> 0, profiles |-> <<>>]

\* the `linear` property
linear(o) == o.kind # "GenericObjective"

\* the named parameter of compute (getfullargspec(self.compute)[0][1:])
compute_args(o) ==
    CASE o.kind = "FixedBoundaryR" -> <<"Rb_lmn">>
      [] o.kind = "FixedBoundaryZ" -> <<"Zb_lmn">>
      [] o.kind = "FixedPressure"  -> <<"p_l">>
      [] o.kind = "FixedIota"      -> <<"i_l">>
      [] o.kind = "FixedPsi"       -> <<"Psi">>
      [] o.kind = "TargetIota"     -> <<"i_l">>
      [] OTHER                     -> <<>>

\* the basis whose modes build() looks the requested modes up in
basis_modes(o, e) ==
    IF o.kind \in {"FixedBoundaryR", "FixedBoundaryZ"} THEN e.bmodes ELSE e.pmodes

\* the coefficients build() falls back to "if needed"
build_source(o, e) ==
    CASE o.kind = "FixedBoundaryR" -> e.Rb
      [] o.kind = "FixedBoundaryZ" -> e.Rb
      [] o.kind = "FixedPressure"  -> e.p_l
      [] o.kind = "FixedIota"      -> e.i_l
      [] OTHER                     -> <<e.Psi>>

\* the coefficients update_target() reads
update_source(o, e) ==
    CASE o.kind = "FixedBoundaryR" -> e.Rb
      [] o.kind = "FixedBoundaryZ" -> e.Zb
      [] o.kind = "FixedPressure"  -> e.p_l
      [] o.kind = "FixedIota"      -> e.i_l
      [] OTHER                     -> <<e.Psi>>

\* _Objective._set_dimensions
set_dimensions(e) ==
    [a \in ArgSet |->
        CASE a \in {"R_lmn", "Z_lmn", "L_lmn"} -> e.nint
          [] a = "Rb_lmn" -> Len(e.bmodes)
          [] a = "Zb_lmn" -> Len(e.bmodes)
          [] a = "p_l"    -> Len(e.p_l)
          [] a = "i_l"    -> Len(e.i_l)
          [] OTHER        -> 1]

\* a single distinct value is broadcast to n entries
broadcast(v, n) == IF Cardinality(Range(v)) = 1 THEN Repeat(v[1], n) ELSE v

\* the two length checks of _check_dimensions
check_lengths(o) ==
    [o EXCEPT !.err = IF Len(o.target) # o.dim_f THEN ErrTarget
                      ELSE IF Len(o.weight) # o.dim_f THEN ErrWeight
                      ELSE NoError]

\* _Objective._check_dimensions: a single distinct value is broadcast to
\* dim_f, then both lengths are checked
check_dimensions(o) ==
    check_lengths([o EXCEPT !.target = broadcast(o.target, o.dim_f),
                            !.weight = broadcast(o.weight, o.dim_f)])

\* the target and weight setters
set_target(o, v) == check_dimensions([o EXCEPT !.target = v])
set_weight(o, v) == check_dimensions([o EXCEPT !.weight = v])

\* ascending sequence of a finite set of integers
RECURSIVE Sorted(_)
Sorted(S) ==
    IF S = {} THEN <<>>
    ELSE LET m == CHOOSE x \in S : \A y \in S : x <= y
         IN  <<m>> \o Sorted(S \ {m})

FirstIndex(s, v) == CHOOSE i \in 1..Len(s) : s[i] = v /\ \A j \in 1..(i - 1) : s[j] # v

\* the first positions in ar1 and ar2 of the values c
first_indices(ar1, ar2, c) ==
    [ind1 |-> [k \in 1..Len(c) |-> FirstIndex(ar1, c[k])],
     ind2 |-> [k \in 1..Len(c) |-> FirstIndex(ar2, c[k])]]

\* np.intersect1d(ar1, ar2, return_indices=True): the common values in
\* sorted order, as their first positions in ar1 and in ar2
intersect1d(ar1, ar2) ==
    first_indices(ar1, ar2, Sorted(Range(ar1) \cap Range(ar2)))

\* a[idx] is defined when every index is inside a
InBounds(a, idx) == \A k \in 1..Len(idx) : idx[k] \in 1..Len(a)

\* compute of a built linear objective at the value x of its argument:
\* (x[_idx] - target) * weight, and (Psi - target) * weight for FixedPsi
compute(o, x) ==
    IF o.kind = "FixedPsi"
    THEN VMul(VSub(x, o.target), o.weight)
    ELSE VMul(VSub(Take(x, o.idx), o.target), o.weight)

\* jnp.sum(f ** 2)
sum_squares(f) == QSum(VMul(f, f))

\* _Objective.compute_scalar
obj_compute_scalar(o, x) == sum_squares(compute(o, x))

UnitVec(n, j) == [i \in 1..n |-> IF i = j THEN R(1) ELSE R(0)]

\* Derivative(compute, argnum, mode="fwd").compute(zeros): the Jacobian of
\* the (affine) compute, column j being compute(e_j) - compute(0)
Jacobian(o, n) ==
    [k \in 1..o.dim_f |->
        [j \in 1..n |-> QSub(compute(o, UnitVec(n, j))[k], compute(o, Zeros(n))[k])]]

\* _set_derivatives with every zero block given the shape of the scalar
\* derivatives, (1, dimensions[arg])
set_derivatives_scalar_shape(o) ==
    [o EXCEPT !.args = compute_args(o),
              !.derivatives =
                 [a \in ArgSet |->
                    IF a \in Range(compute_args(o))
                    THEN Jacobian(o, o.dimensions[a])
                    ELSE Repeat(Zeros(o.dimensions[a]), 1)]]

\* _Objective._set_derivatives for a linear objective
set_derivatives(o) ==
    [o EXCEPT !.args = compute_args(o),
              !.derivatives =
                 [a \in ArgSet |->
                    IF a \in Range(compute_args(o))
                    THEN Jacobian(o, o.dimensions[a])
                    ELSE Repeat(Zeros(o.dimensions[a]), o.dim_f)]]

\* _set_dimensions, _set_derivatives, _built = True
finish_checked(o, e) ==
    IF o.err # NoError THEN o
    ELSE [set_derivatives([o EXCEPT !.dimensions = set_dimensions(e)])
            EXCEPT !.built = TRUE]

\* the tail shared by every build(): _check_dimensions, _set_dimensions,
\* _set_derivatives, _built = True
finish_build(o, e) == finish_checked(check_dimensions(o), e)

\* modes, idx: all modes of the basis, or the requested modes found in it
\* (ind1 is self._idx, ind2 the idx of the requested modes)
fixed_idx(o, bm) ==
    IF o.allmodes
    THEN [ind1 |-> [k \in 1..Len(bm) |-> k], ind2 |-> [k \in 1..Len(bm) |-> k]]
    ELSE intersect1d(bm, o.modes)

\* modes.shape[0]
num_modes(o, bm) == IF o.allmodes THEN Len(bm) ELSE Len(o.modes)

\* self._idx = ..., self._dim_f = self._idx.size
fixed_dim_f(o, ix) ==
    [o EXCEPT !.idx = ix.ind1, !.dim_f = Len(ix.ind1), !.hasdim = TRUE,
              !.err = NoError]

\* if self.target.size == modes.shape[0]: self.target = self._weight[idx]
fixed_target(o, nm, idx) ==
    IF Len(o.target) # nm THEN o
    ELSE IF InBounds(o.weight, idx) THEN set_target(o, Take(o.weight, idx))
    ELSE [o EXCEPT !.err = IndexError]

\* if self.weight.size == modes.shape[0]: self.weight = self._weight[idx]
fixed_weight(o, nm, idx) ==
    IF o.err # NoError \/ Len(o.weight) # nm THEN o
    ELSE IF InBounds(o.weight, idx) THEN set_weight(o, Take(o.weight, idx))
    ELSE [o EXCEPT !.err = IndexError]

\* if None in self.target or self.target.size != self.dim_f:
\*     self.target = <coefficients>[self._idx]
fixed_default(o, src) ==
    IF o.err # NoError THEN o
    ELSE IF None \in Range(o.target) \/ Len(o.target) # o.dim_f
    THEN set_target(o, Take(src, o.idx))
    ELSE o

\* the rest of build() runs unless an error was raised
finish_unless_error(o, e) == IF o.err # NoError THEN o ELSE finish_build(o, e)

fixed_build_modes(o, e, ix, nm) ==
    finish_unless_error(
        fixed_default(
            fixed_weight(fixed_target(fixed_dim_f(o, ix), nm, ix.ind2), nm, ix.ind2),
            build_source(o, e)),
        e)

\* FixedBoundaryR.build, FixedBoundaryZ.build, FixedPressure.build and
\* FixedIota.build (surface=None / profile=None, so the equilibrium's)
fixed_build(o, e) ==
    fixed_build_modes(o, e, fixed_idx(o, basis_modes(o, e)),
                      num_modes(o, basis_modes(o, e)))

\* if None in self.target: self.target = eq.Psi
psi_default(o, e) ==
    IF None \in Range(o.target) THEN set_target(o, <<e.Psi>>) ELSE o

\* FixedPsi.build
psi_build(o, e) ==
    finish_unless_error(
        psi_default([o EXCEPT !.dim_f = 1, !.hasdim = TRUE, !.err = NoError], e), e)

\* constraint.build(eq) / objective.build(eq); the object keeps the error
\* it raised in err
build(o, e) ==
    IF o.kind = "FixedPsi" THEN psi_build(o, e) ELSE fixed_build(o, e)

\* update_target(eq) of the linear objectives: self.target = <coefficients>[_idx]
\* through the target setter; _idx (and dim_f) exist only once build set them
update_target(o, e) ==
    IF ~o.hasdim
    THEN IF o.kind = "FixedPsi"
         THEN [o EXCEPT !.target = <<e.Psi>>, !.err = AttributeError]
         ELSE [o EXCEPT !.err = AttributeError]
    ELSE IF o.kind = "FixedPsi" THEN set_target(o, <<e.Psi>>)
    ELSE set_target(o, Take(update_source(o, e), o.idx))

-----------------------------------------------------------------------------
(* ObjectiveFunction.                                                      *)

NotBuilt == "RuntimeError: ObjectiveFunction must be built first."
NotLinear == "NotImplementedError: Constraints must be linear."
InvalidDimension == "ValueError: Input vector dimension is invalid."
ConcatError == "ValueError: need at least one array to concatenate"
AmaxError == "ValueError: zero-size array to reduction operation maximum"
ShapeError == "ValueError: shapes not aligned"

\* ObjectiveFunction.__init__ with eq=None: nothing but the flags is set
NewObjectiveFunction ==
    [built |-> FALSE, compiled |-> FALSE, dim_c |-> 0, dim_f |-> 0,
     scalar |-> FALSE, args |-> {}, dimensions |-> [a \in ArgSet |-> 0],
     y_idx |-> [a \in ArgSet |-> <<>>], dim_y |-> 0,
     A |-> <<>>, b |-> <<>>, Ainv |-> <<>>, y0 |-> <<>>, Z |-> <<>>, dim_x |-> 0]

RECURSIVE SumDimF(_)
SumDimF(os) == IF os = <<>> THEN 0 ELSE Head(os).dim_f + SumDimF(Tail(os))

\* the two loops of ObjectiveFunction.build: each object in tuple order is
\* checked (constraints only) and built; the first error ends the loop
RECURSIVE build_loop(_, _, _, _)
\* the loop after the build of one object returned o
build_next(done, o, rest, e, constraint) ==
    IF o.err # NoError
    THEN [os |-> done \o <<o>> \o rest, err |-> o.err]
    ELSE build_loop(Append(done, o), rest, e, constraint)

\* the loops without the check that a constraint is linear: a constraint
\* that is not linear is passed over
build_loop_unchecked(done, rest, e, constraint) ==
    IF rest = <<>> THEN [os |-> done, err |-> NoError]
    ELSE IF constraint /\ ~linear(Head(rest))
         THEN build_loop(Append(done, Head(rest)), Tail(rest), e, constraint)
         ELSE build_next(done, build(Head(rest), e), Tail(rest), e, constraint)

build_loop(done, rest, e, constraint) ==
    IF rest = <<>> THEN [os |-> done, err |-> NoError]
    ELSE IF constraint /\ ~linear(Head(rest))
         THEN [os |-> done \o rest, err |-> NotLinear]
         ELSE build_next(done, build(Head(rest), e), Tail(rest), e, constraint)

\* number of objects a loop built before it ended
NumBuilt(os) == Cardinality({i \in 1..Len(os) : os[i].built})

\* np.arange(lo, lo + n), 1-based
Arange(lo, n) == [k \in 1..n |-> lo + k - 1]

RECURSIVE Offset(_, _, _)
\* the index at which argument number i of arg_order starts in y
Offset(args, dims, i) ==
    IF i = 1 THEN 1
    ELSE Offset(args, dims, i - 1)
         + (IF arg_order[i - 1] \in args THEN dims[arg_order[i - 1]] ELSE 0)

\* y_idx with a range for every argument of arg_order, used or not
state_vector_all(s, args, dims) ==
    [s EXCEPT
       !.args = args,
       !.dimensions = dims,
       !.y_idx = [a \in ArgSet |->
                    Arange(Offset(ArgSet, dims, FirstIndex(arg_order, a)), dims[a])],
       !.dim_y = Offset(ArgSet, dims, Len(arg_order) + 1) - 1]

\* y_idx, dim_y and dimensions for the arguments args
state_vector(s, args, dims) ==
    [s EXCEPT
       !.args = args,
       !.dimensions = dims,
       !.y_idx = [a \in ArgSet |->
                    IF a \in args
                    THEN Arange(Offset(args, dims, FirstIndex(arg_order, a)), dims[a])
                    ELSE <<>>],
       !.dim_y = Offset(args, dims, Len(arg_order) + 1) - 1]

\* ObjectiveFunction._set_state_vector
set_state_vector(s, objs, cons) ==
    IF objs = <<>> THEN [self |-> s, err |-> ConcatError]
    ELSE [self |-> state_vector(s,
                      UNION {Range(objs[i].args) : i \in 1..Len(objs)}
                      \cup UNION {Range(cons[i].args) : i \in 1..Len(cons)},
                      objs[1].dimensions),
          err |-> NoError]

\* the row block of one constraint: its derivative blocks of the used
\* arguments, stacked horizontally in arg_order
RECURSIVE RowBlock(_, _, _)
RowBlock(o, args, i) ==
    IF i = 0 THEN Repeat(<<>>, o.dim_f)
    ELSE IF arg_order[i] \in args
         THEN HStack(RowBlock(o, args, i - 1), o.derivatives[arg_order[i]])
         ELSE RowBlock(o, args, i - 1)

\* A: the constraints' row blocks stacked vertically
RECURSIVE StackA(_, _)
StackA(cons, args) ==
    IF cons = <<>> THEN <<>>
    ELSE RowBlock(Head(cons), args, Len(arg_order)) \o StackA(Tail(cons), args)

\* b: the constraints' targets in constraint order
RECURSIVE StackB(_)
StackB(cons) == IF cons = <<>> THEN <<>> ELSE Head(cons).target \o StackB(Tail(cons))

\* squared norm of column j of A
ColNorm2(A, j) == QSum([k \in 1..Len(A) |-> QMul(A[k][j], A[k][j])])

\* The singular value decomposition of a matrix whose columns are mutually
\* orthogonal (every row of a Fixed* constraint has one non-zero entry):
\* the singular values are the column norms, the right singular vectors
\* the coordinate vectors.  A value is "large" (s > amax(s) * rcond) iff the
\* column is not zero: the entries are small integers, far above eps.

large(A, j) == ColNorm2(A, j) # R(0)

\* Ainv = vhk.T @ (1/s * uk.T) with the small singular values set to 0:
\* the pseudoinverse, (A^T A)^+ A^T
pinv(A, n) ==
    [j \in 1..n |->
        [k \in 1..Len(A) |->
            IF large(A, j) THEN QDiv(A[k][j], ColNorm2(A, j)) ELSE R(0)]]

\* Z = vh[num:, :].T: an orthonormal basis of the null space, here the
\* coordinate vectors of the zero columns.  LAPACK fixes neither the order
\* nor the signs of these vectors: zc.desc and zc.neg choose among them.
ZChoices == [desc : BOOLEAN, neg : BOOLEAN]

\* the coordinate vectors of the columns asc, in the order and with the
\* sign zc chooses
null_vectors(asc, n, zc) ==
    [i \in 1..n |->
        [c \in 1..Len(asc) |->
            IF (IF zc.desc THEN asc[Len(asc) + 1 - c] ELSE asc[c]) = i
            THEN (IF zc.neg THEN R(0 - 1) ELSE R(1))
            ELSE R(0)]]

nullspace(A, n, zc) == null_vectors(Sorted({j \in 1..n : ~large(A, j)}), n, zc)

\* the attributes _build_linear_constraints sets from A, b, Ainv and Z
linear_constraints(s, A, b, Ainv, Z) ==
    [s EXCEPT !.A = A, !.b = b, !.Ainv = Ainv, !.y0 = MatVec(Ainv, b), !.Z = Z,
              !.dim_x = Len(Z[1])]

\* _build_linear_constraints with at least one constraint
constrained(s, A, b, zc) ==
    IF A = <<>>
    THEN [self |-> [s EXCEPT !.A = A, !.b = b], err |-> AmaxError]
    ELSE [self |-> linear_constraints(s, A, b, pinv(A, s.dim_y),
                                      nullspace(A, s.dim_y, zc)),
          err |-> NoError]

\* _build_linear_constraints with a y0 of ones when nothing is constrained
build_linear_constraints_shifted(s, cons, zc) ==
    IF cons = <<>>
    THEN [self |-> [s EXCEPT !.A = <<<<>>>>, !.b = <<>>, !.Ainv = <<<<>>>>,
                             !.y0 = Repeat(R(1), s.dim_y), !.Z = Eye(s.dim_y),
                             !.dim_x = s.dim_y],
          err |-> NoError]
    ELSE constrained(s, StackA(cons, s.args), StackB(cons), zc)

\* ObjectiveFunction._build_linear_constraints
build_linear_constraints(s, cons, zc) ==
    IF cons = <<>>
    THEN [self |-> [s EXCEPT !.A = <<<<>>>>, !.b = <<>>, !.Ainv = <<<<>>>>,
                             !.y0 = Zeros(s.dim_y), !.Z = Eye(s.dim_y),
                             !.dim_x = s.dim_y],
          err |-> NoError]
    ELSE constrained(s, StackA(cons, s.args), StackB(cons), zc)

\* dim_c / dim_f: the sum over the objects a loop built
dim_built(os) == SumDimF(SubSeq(os, 1, NumBuilt(os)))

\* build after _build_linear_constraints returned l
build_done(l, c, o) ==
    IF l.err # NoError
    THEN [self |-> l.self, cons |-> c.os, objs |-> o.os, err |-> l.err]
    ELSE [self |-> [l.self EXCEPT !.built = TRUE],
          cons |-> c.os, objs |-> o.os, err |-> NoError]

\* build after _set_state_vector returned v
build_constrain(s, v, c, o, zc) ==
    IF v.err # NoError
    THEN [self |-> s, cons |-> c.os, objs |-> o.os, err |-> v.err]
    ELSE build_done(build_linear_constraints(v.self, c.os, zc), c, o)

\* build after the loop over the objectives returned o
build_state(s, c, o, zc) ==
    IF o.err # NoError
    THEN [self |-> s, cons |-> c.os, objs |-> o.os, err |-> o.err]
    ELSE build_constrain([s EXCEPT !.scalar = (s.dim_f = 1)],
                         set_state_vector([s EXCEPT !.scalar = (s.dim_f = 1)],
                                          o.os, c.os),
                         c, o, zc)

\* build after the loop over the constraints returned c
build_objectives(s, c, objs, o, zc) ==
    IF c.err # NoError
    THEN [self |-> s, cons |-> c.os, objs |-> objs, err |-> c.err]
    ELSE build_state([s EXCEPT !.dim_f = dim_built(o.os)], c, o, zc)

\* build that leaves _dim_c at the 0 it starts the constraint loop with
build_constraints_uncounted(s, c, objs, e, zc) ==
    build_objectives([s EXCEPT !.dim_c = 0], c, objs,
                     build_loop(<<>>, objs, e, FALSE), zc)

\* build after the loop over the constraints: _dim_c is their sum
build_constraints(s, c, objs, e, zc) ==
    build_objectives([s EXCEPT !.dim_c = dim_built(c.os)], c, objs,
                     build_loop(<<>>, objs, e, FALSE), zc)

\* ObjectiveFunction.build(eq): the new object, its constraints and
\* objectives, and the error it raised
of_build(s, cons, objs, e, zc) ==
    build_constraints(s, build_loop(<<>>, cons, e, TRUE), objs, e, zc)

\* The statements build() runs, in the order it runs them, as events
\* <<statement, position in the tuple>>; a statement that raises is the
\* last event.
EvConstraint == "constraint.build"
EvObjective == "objective.build"
EvStateVector == "_set_state_vector"
EvLinearConstraints == "_build_linear_constraints"
EvDerivatives == "_set_derivatives"
EvBuilt == "_built = True"

\* the events of one of the two loops of build(), from element i on
RECURSIVE loop_trace(_, _, _, _)
loop_trace(rest, i, e, constraint) ==
    IF rest = <<>> THEN <<>>
    ELSE IF constraint /\ ~linear(Head(rest)) THEN <<>>
    ELSE <<<<IF constraint THEN EvConstraint ELSE EvObjective, i>>>>
         \o (IF build(Head(rest), e).err # NoError THEN <<>>
             ELSE loop_trace(Tail(rest), i + 1, e, constraint))

\* the events after the two loops, for a build that returned r
tail_trace(r) ==
    <<<<EvStateVector, 0>>>>
    \o (IF r.err = ConcatError THEN <<>>
        ELSE <<<<EvLinearConstraints, 0>>>>
             \o (IF r.err # NoError THEN <<>>
                 ELSE <<<<EvDerivatives, 0>>, <<EvBuilt, 0>>>>))

\* the events from the loop over the objectives on; o is what that loop
\* returned
objectives_trace(r, objs, o, e) ==
    loop_trace(objs, 1, e, FALSE)
    \o (IF o.err # NoError THEN <<>> ELSE tail_trace(r))

\* the events of ObjectiveFunction.build(eq), which returned r; c is what
\* the loop over the constraints returned
build_trace(r, c, cons, objs, e) ==
    loop_trace(cons, 1, e, TRUE)
    \o (IF c.err # NoError THEN <<>>
        ELSE objectives_trace(r, objs, build_loop(<<>>, objs, e, FALSE), e))

\* the update_target loop of rebuild_constraints; the first error ends it
RECURSIVE update_loop(_, _, _)
update_next(done, o, rest, e) ==
    IF o.err # NoError
    THEN [os |-> done \o <<o>> \o rest, err |-> o.err]
    ELSE update_loop(Append(done, o), rest, e)

update_loop(done, rest, e) ==
    IF rest = <<>> THEN [os |-> done, err |-> NoError]
    ELSE update_next(done, update_target(Head(rest), e), Tail(rest), e)

\* rebuild_constraints reading _b and _Ainv without the built check
rebuild_b_unguarded(s, u) ==
    IF u.err # NoError
    THEN [self |-> s, cons |-> u.os, err |-> u.err]
    ELSE [self |-> [s EXCEPT !.b = StackB(u.os),
                             !.y0 = MatVec(s.Ainv, StackB(u.os))],
          cons |-> u.os, err |-> NoError]

\* rebuild_constraints that refreshes b and keeps the y0 of the build
rebuild_b_stale(s, u) ==
    IF u.err # NoError
    THEN [self |-> s, cons |-> u.os, err |-> u.err]
    ELSE IF ~s.built
    THEN [self |-> [s EXCEPT !.b = <<>>], cons |-> u.os, err |-> NotBuilt]
    ELSE [self |-> [s EXCEPT !.b = StackB(u.os)], cons |-> u.os, err |-> NoError]

\* rebuild_constraints after the update_target loop returned u
rebuild_b(s, u) ==
    IF u.err # NoError
    THEN [self |-> s, cons |-> u.os, err |-> u.err]
    ELSE IF ~s.built
    THEN [self |-> [s EXCEPT !.b = <<>>], cons |-> u.os, err |-> NotBuilt]
    ELSE [self |-> [s EXCEPT !.b = StackB(u.os),
                             !.y0 = MatVec(s.Ainv, StackB(u.os))],
          cons |-> u.os, err |-> NoError]

\* ObjectiveFunction.rebuild_constraints(eq).  self.b and self.Ainv are the
\* properties, which raise on an object that is not built.
rebuild_constraints(s, cons, e) ==
    rebuild_b(s, update_loop(<<>>, cons, e))

-----------------------------------------------------------------------------
(* Arrays with a shape: nd is the number of axes, v the scalar (in a       *)
(* one-element sequence), the vector or the rows.                          *)

Arr0(q) == [nd |-> 0, v |-> <<q>>]
Arr1(s) == [nd |-> 1, v |-> s]
Arr2(m) == [nd |-> 2, v |-> m]

\* what a call that raised returns
NoValue == [nd |-> 1, v |-> <<>>]

\* jnp.squeeze: every axis of length one is dropped
squeeze(a) ==
    IF a.nd = 1
    THEN IF Len(a.v) = 1 THEN Arr0(a.v[1]) ELSE a
    ELSE IF a.nd = 2
    THEN IF Len(a.v) = 1
         THEN IF Len(a.v[1]) = 1 THEN Arr0(a.v[1][1]) ELSE Arr1(a.v[1])
         ELSE IF Len(a.v) > 1 /\ Len(a.v[1]) = 1
              THEN Arr1([i \in 1..Len(a.v) |-> a.v[i][1]])
              ELSE a
    ELSE a

\* a == b elementwise after numpy broadcasting, all entries true; arrays
\* whose shapes do not broadcast are not equal
AllEqual(a, b) ==
    CASE a.nd = b.nd -> a.v = b.v
      [] a.nd = 0 /\ b.nd = 1 -> \A i \in 1..Len(b.v) : b.v[i] = a.v[1]
      [] a.nd = 1 /\ b.nd = 0 -> \A i \in 1..Len(a.v) : a.v[i] = b.v[1]
      [] a.nd = 2 /\ b.nd = 1 ->
            \A i \in 1..Len(a.v) :
                /\ Len(a.v[i]) = Len(b.v)
                /\ a.v[i] = b.v
      [] a.nd = 1 /\ b.nd = 2 ->
            \A i \in 1..Len(b.v) :
                /\ Len(b.v[i]) = Len(a.v)
                /\ b.v[i] = a.v
      [] a.nd = 0 /\ b.nd = 2 ->
            \A i \in 1..Len(b.v) : \A j \in 1..Len(b.v[i]) : b.v[i][j] = a.v[1]
      [] OTHER ->
            \A i \in 1..Len(a.v) : \A j \in 1..Len(a.v[i]) : a.v[i][j] = b.v[1]

\* u + v and u - v of one-dimensional arrays under numpy broadcasting
Broadcasts(u, v) == Len(u) = Len(v) \/ Len(u) = 1 \/ Len(v) = 1

BLen(u, v) == IF Len(u) > Len(v) THEN Len(u) ELSE Len(v)

BAt(u, n, i) == IF Len(u) = n THEN u[i] ELSE u[1]

BAdd(u, v) == [i \in 1..BLen(u, v) |-> QAdd(BAt(u, BLen(u, v), i), BAt(v, BLen(u, v), i))]
BSub(u, v) == [i \in 1..BLen(u, v) |-> QSub(BAt(u, BLen(u, v), i), BAt(v, BLen(u, v), i))]

\* ObjectiveFunction.recover(x) with y0=None: squeeze(y0 + dot(Z, x)).
\* dot with a 0-d x is the product Z * x, and adding y0 to that matrix
\* broadcasts y0 along its rows.
recover(s, x) ==
    IF ~s.built THEN [err |-> NotBuilt, ret |-> NoValue]
    ELSE IF x.nd = 1
    THEN IF Len(x.v) # s.dim_x \/ ~Broadcasts(s.y0, s.Z)
         THEN [err |-> ShapeError, ret |-> NoValue]
         ELSE [err |-> NoError,
               ret |-> squeeze(Arr1(BAdd(s.y0, MatVec(s.Z, x.v))))]
    ELSE IF s.dim_x = 0 \/ ~Broadcasts(s.y0, s.Z[1])
    THEN [err |-> ShapeError, ret |-> NoValue]
    ELSE [err |-> NoError,
          ret |-> squeeze(Arr2(
             [i \in 1..Len(s.Z) |->
                BAdd(s.y0, [j \in 1..s.dim_x |-> QMul(s.Z[i][j], x.v[1])])]))]

\* project with the difference taken the other way round, y0 - y
project_reversed(s, y) ==
    IF ~s.built THEN [err |-> NotBuilt, ret |-> NoValue]
    ELSE IF ~Broadcasts(y.v, s.y0) \/ BLen(y.v, s.y0) # Len(s.Z)
    THEN [err |-> ShapeError, ret |-> NoValue]
    ELSE [err |-> NoError,
          ret |-> squeeze(Arr1(MatVec(Transpose(s.Z, s.dim_x), BSub(s.y0, y.v))))]

\* ObjectiveFunction.project(y) with y0=None: squeeze(dot(Z.T, y - y0));
\* a 0-d y is broadcast against y0
project(s, y) ==
    IF ~s.built THEN [err |-> NotBuilt, ret |-> NoValue]
    ELSE IF ~Broadcasts(y.v, s.y0) \/ BLen(y.v, s.y0) # Len(s.Z)
    THEN [err |-> ShapeError, ret |-> NoValue]
    ELSE [err |-> NoError,
          ret |-> squeeze(Arr1(MatVec(Transpose(s.Z, s.dim_x), BSub(y.v, s.y0))))]

\* y0 + np.dot(self.Z, x) for the projected x: a 0-d x gives the matrix
\* Z * x, to which y0 is added along the rows; nothing is squeezed
feasible_sum(s, x) ==
    IF x.err # NoError THEN [err |-> x.err, ret |-> NoValue]
    ELSE IF x.ret.nd = 1
    THEN [err |-> NoError, ret |-> Arr1(BAdd(s.y0, MatVec(s.Z, x.ret.v)))]
    ELSE IF ~Broadcasts(s.y0, s.Z[1]) THEN [err |-> ShapeError, ret |-> NoValue]
    ELSE [err |-> NoError,
          ret |-> Arr2([i \in 1..Len(s.Z) |->
                     BAdd(s.y0, [j \in 1..s.dim_x |-> QMul(s.Z[i][j], x.ret.v[1])])])]

\* ObjectiveFunction.make_feasible(y) with y0=None.  A matrix y is what an
\* earlier make_feasible returned: a 1 x 1 matrix goes through like the
\* vector of its entry, for a larger one the shapes of Z and x do not match.
make_feasible(s, y) ==
    IF ~s.built THEN [err |-> NotBuilt, ret |-> NoValue]
    ELSE IF y.nd = 2
    THEN IF Len(y.v) = 1 /\ Len(y.v[1]) = 1
         THEN feasible_sum(s, project(s, Arr1(y.v[1])))
         ELSE [err |-> ShapeError, ret |-> NoValue]
    ELSE feasible_sum(s, project(s, y))

\* a dict without keys
NoKwargs == [a \in {} |-> <<>>]

\* kwargs[arg] = y[self.y_idx[arg]] for the recovered or given y
unpack_y(s, r) ==
    IF r.err # NoError THEN [err |-> r.err, kw |-> NoKwargs]
    ELSE IF r.ret.nd = 0 THEN [err |-> IndexError, kw |-> NoKwargs]
    ELSE [err |-> NoError, kw |-> [a \in s.args |-> Take(r.ret.v, s.y_idx[a])]]

\* ObjectiveFunction.unpack_state(x) with y0=None, x already atleast_1d.
\* Indexing the recovered y with an index array needs y to have an axis.
unpack_state(s, x) ==
    IF ~s.built THEN [err |-> NotBuilt, kw |-> NoKwargs]
    ELSE IF Len(x) = s.dim_x THEN unpack_y(s, recover(s, Arr1(x)))
    ELSE IF Len(x) = s.dim_y THEN unpack_y(s, [err |-> NoError, ret |-> Arr1(x)])
    ELSE [err |-> InvalidDimension, kw |-> NoKwargs]

\* obj.compute(**kwargs): the objective picks its own argument
compute_kw(o, kw) == compute(o, kw[o.args[1]])

RECURSIVE ConcatCompute(_, _)
ConcatCompute(objs, kw) ==
    IF objs = <<>> THEN <<>>
    ELSE compute_kw(Head(objs), kw) \o ConcatCompute(Tail(objs), kw)

\* jnp.concatenate([obj.compute(**kwargs) for obj in self.objectives])
concat_compute(objs, u) ==
    IF u.err # NoError THEN [err |-> u.err, ret |-> NoValue]
    ELSE [err |-> NoError, ret |-> Arr1(ConcatCompute(objs, u.kw))]

\* ObjectiveFunction.compute(x)
of_compute(s, objs, x) == concat_compute(objs, unpack_state(s, x))

\* jnp.sum(f ** 2) / 2
half_sum_squares(c) ==
    IF c.err # NoError THEN c
    ELSE [err |-> NoError, ret |-> Arr0(QDiv(QSum(VMul(c.ret.v, c.ret.v)), R(2)))]

\* ObjectiveFunction.compute_scalar(x): jnp.sum(self.compute(x) ** 2) / 2
of_compute_scalar(s, objs, x) == half_sum_squares(of_compute(s, objs, x))

\* the modes compile names
CompileModes == {"auto", "lsq", "scalar", "all"}

\* if mode == "auto" and self.scalar: mode = "scalar"
\* elif mode == "auto": mode = "lsq"
resolve_mode(s, mode) ==
    IF mode = "auto" THEN (IF s.scalar THEN "scalar" ELSE "lsq") ELSE mode

\* the functions compile calls for the resolved mode, in the order of the
\* calls
compile_calls(mode) ==
    (IF mode \in {"scalar", "all"} THEN <<"compute_scalar", "grad", "hess">> ELSE <<>>)
    \o (IF mode \in {"lsq", "all"} THEN <<"compute", "jac">> ELSE <<>>)

\* the error of one of these calls at x: grad and hess evaluate
\* compute_scalar, jac evaluates compute
call_error(s, objs, name, x) ==
    IF name \in {"compute", "jac"} THEN of_compute(s, objs, x).err
    ELSE of_compute_scalar(s, objs, x).err

\* the calls of compile in turn; the first that raises ends compile
RECURSIVE compile_run(_, _, _, _)
compile_ran(first, r) ==
    [evaluated |-> <<first>> \o r.evaluated, err |-> r.err]

compile_run(s, objs, names, x) ==
    IF names = <<>> THEN [evaluated |-> <<>>, err |-> NoError]
    ELSE IF call_error(s, objs, Head(names), x) # NoError
    THEN [evaluated |-> <<Head(names)>>, err |-> call_error(s, objs, Head(names), x)]
    ELSE compile_ran(Head(names), compile_run(s, objs, Tail(names), x))


\* self._compiled = True, reached when no call raised
compile_done(s, r) ==
    IF r.err # NoError THEN [self |-> s, err |-> r.err, evaluated |-> r.evaluated]
    ELSE [self |-> [s EXCEPT !.compiled = TRUE], err |-> NoError,
          evaluated |-> r.evaluated]

\* ObjectiveFunction.compile(mode) under the backend use_jax
compile(s, objs, mode, use_jax) ==
    IF ~s.built THEN [self |-> s, err |-> NotBuilt, evaluated |-> <<>>]
    ELSE IF ~use_jax
    THEN [self |-> [s EXCEPT !.compiled = TRUE], err |-> NoError, evaluated |-> <<>>]
    ELSE compile_done(s, compile_run(s, objs, compile_calls(resolve_mode(s, mode)),
                                     Zeros(s.dim_x)))

\* no derivative object has been constructed
NoDerivative == [cls |-> "none"]

\* heap holds the mutable objects that several holders can refer to (the
\* profiles of the sessions that build objectives with profiles, the arrays
\* of the sessions with a BroydenJacobian); the other sessions have none
NoHeap == <<>>

-----------------------------------------------------------------------------
(* The objects a session starts from.                                      *)

\* one given value per mode, for n modes
GivenTarget(n) == [k \in 1..n |-> R(k + 10)]
GivenWeight(n) == [k \in 1..n |-> R(k)]

\* the modes of the basis, listed in the other order
AllModesListed == [k \in 1..NumModes |-> k]

\* constraints a caller may pass
ConstraintMenu ==
    { Objective("FixedBoundaryR", <<None>>, <<R(1)>>, TRUE, <<>>),
      Objective("FixedBoundaryR", <<None>>, <<R(2)>>, FALSE, <<1>>),
      Objective("FixedBoundaryR", GivenTarget(NumModes), GivenWeight(NumModes),
                FALSE, AllModesListed),
      Objective("FixedBoundaryR", GivenTarget(NumModes), <<R(1)>>, TRUE, <<>>),
      Objective("FixedBoundaryR", <<None>>, GivenWeight(NumModes + 1), TRUE, <<>>),
      Objective("FixedBoundaryZ", <<None>>, <<R(1)>>, TRUE, <<>>),
      Objective("FixedPressure", <<None>>, <<R(2)>>, TRUE, <<>>),
      Objective("FixedPsi", <<None>>, <<R(1)>>, TRUE, <<>>),
      Objective("FixedPsi", <<R(2)>>, <<R(1)>>, TRUE, <<>>),
      Objective("GenericObjective", <<R(0)>>, <<R(1)>>, TRUE, <<>>) }

\* residual objectives a caller may pass
ObjectiveMenu ==
    { <<>>,
      <<Objective("FixedBoundaryR", <<None>>, <<R(1)>>, TRUE, <<>>)>>,
      <<Objective("FixedPsi", <<None>>, <<R(1)>>, TRUE, <<>>)>>,
      <<Objective("FixedBoundaryZ", <<None>>, <<R(2)>>, TRUE, <<>>),
        Objective("FixedPsi", <<None>>, <<R(1)>>, TRUE, <<>>)>> }

\* tuples of at most n elements of S
Tuples(S, n) == UNION {[1..k -> S] : k \in 0..n}

\* the record of the last call: its name, argument, error and result;
\* chained says that the argument is the previous call's result, and src
\* is then the previous call's argument
Call(op, arg, err, ret) ==
    [op |-> op, arg |-> arg, err |-> err, ret |-> ret, kw |-> NoKwargs,
     chained |-> FALSE, src |-> NoValue, who |-> 0]

\* "one constraint fixing 3 of 5 boundary coefficients to [1.0, 0.0, -0.5]"
ScenarioTarget == <<R(1), R(0), Q(0 - 1, 2)>>
ScenarioFixed == <<1, 3, ScenarioModes>>

\* the constraint of that scenario, with the default weight and with one
\* unit weight per fixed coefficient
ScenarioConstraints ==
    { Objective("FixedBoundaryR", ScenarioTarget, <<R(1)>>, FALSE, ScenarioFixed),
      Objective("FixedBoundaryR", ScenarioTarget, <<R(1), R(1), R(1)>>, FALSE,
                ScenarioFixed) }

\* ObjectiveFunction(objectives, constraints), eq=None: nothing is built
Init ==
    /\ \/ /\ eq = Equilibrium(0, NumModes)
          /\ constraints \in Tuples(ConstraintMenu, MaxCons)
          /\ objectives \in ObjectiveMenu
       \/ /\ eq = Equilibrium(0, ScenarioModes)
          /\ constraints \in {<<c>> : c \in ScenarioConstraints}
          /\ objectives \in {<<>>,
                <<Objective("FixedBoundaryR", <<None>>, <<R(1)>>, TRUE, <<>>)>>}
    /\ self = NewObjectiveFunction
    /\ call = Call("new", NoValue, NoError, NoValue)
    /\ derivative = NoDerivative
    /\ heap = NoHeap

\* no build() has touched any of the objects yet
Fresh ==
    /\ ~self.built
    /\ \A i \in 1..Len(constraints) : ~constraints[i].hasdim
    /\ \A i \in 1..Len(objectives) : ~objectives[i].hasdim

\* objective_function.build(eq)
Build ==
    /\ Fresh
    /\ \E zc \in ZChoices :
         \E r \in {of_build(self, constraints, objectives, eq, zc)} :
             /\ self' = r.self
             /\ constraints' = r.cons
             /\ objectives' = r.objs
             /\ call' = [Call("build", NoValue, r.err, NoValue)
                          EXCEPT !.kw = [trace |->
                             build_trace(r, build_loop(<<>>, constraints, eq, TRUE),
                                         constraints, objectives, eq)]]
    /\ UNCHANGED <<eq, derivative, heap>>

\* the equilibrium changes, then objective_function.rebuild_constraints(eq)
RebuildConstraints ==
    \E e \in Equilibria(Len(eq.bmodes)) :
       \E r \in {rebuild_constraints(self, constraints, e)} :
           /\ eq' = e
           /\ self' = r.self
           /\ constraints' = r.cons
           /\ call' = Call("rebuild_constraints", NoValue, r.err, NoValue)
           /\ UNCHANGED <<objectives, derivative, heap>>

\* objective_function.compile(mode); the argument recorded is the probe
\* vector x = np.zeros((dim_x,))
Compile ==
    /\ \E mode \in CompileModes, use_jax \in BOOLEAN :
       \E r \in {compile(self, objectives, mode, use_jax)} :
          /\ self' = r.self
          /\ call' = [Call("compile", Arr1(Zeros(self.dim_x)), r.err, NoValue)
                        EXCEPT !.kw = [mode |-> mode, use_jax |-> use_jax,
                                       evaluated |-> r.evaluated]]
    /\ UNCHANGED <<eq, objectives, constraints, derivative, heap>>

Next == Build \/ RebuildConstraints

Spec == Init /\ [][Next]_vars

-----------------------------------------------------------------------------
(* Calls on the objective function.                                        *)

\* vectors of length n handed to the calls: zero, and one non-zero entry
Probes(n) ==
    {Zeros(n)} \cup
    {[i \in 1..n |-> IF i = j THEN R(a) ELSE R(0)] : j \in 1..n, a \in 1..MaxVal}

\* full state vectors near y0, for the calls that take a feasible y
NearY0(s) == {BAdd(s.y0, p) : p \in Probes(s.dim_y)}

\* constraints of the sessions that go on to call the objective function
CallConstraintMenu ==
    { Objective("FixedBoundaryR", <<None>>, <<R(1)>>, TRUE, <<>>),
      Objective("FixedBoundaryR", <<None>>, <<R(2)>>, FALSE, <<1>>),
      Objective("FixedPsi", <<None>>, <<R(1)>>, TRUE, <<>>) }

InitCalls ==
    /\ eq = Equilibrium(0, NumModes)
    /\ constraints \in Tuples(CallConstraintMenu, MaxCons)
    /\ objectives \in ObjectiveMenu
    /\ self = NewObjectiveFunction
    /\ call = Call("new", NoValue, NoError, NoValue)
    /\ derivative = NoDerivative
    /\ heap = NoHeap

\* objective_function.recover(x)
Recover ==
    /\ \E x \in Probes(self.dim_x) :
         \E r \in {recover(self, Arr1(x))} :
             call' = Call("recover", Arr1(x), r.err, r.ret)
    /\ UNCHANGED <<eq, objectives, constraints, self, derivative, heap>>

\* objective_function.project(y)
Project ==
    /\ \E y \in Probes(self.dim_y) \cup NearY0(self) :
         \E r \in {project(self, Arr1(y))} :
             call' = Call("project", Arr1(y), r.err, r.ret)
    /\ UNCHANGED <<eq, objectives, constraints, self, derivative, heap>>

\* objective_function.project(objective_function.recover(x))
ProjectRecovered ==
    /\ call.op = "recover" /\ call.err = NoError /\ ~call.chained
    /\ \E r \in {project(self, call.ret)} :
           call' = [Call("project", call.ret, r.err, r.ret)
                      EXCEPT !.chained = TRUE, !.src = call.arg]
    /\ UNCHANGED <<eq, objectives, constraints, self, derivative, heap>>

\* objective_function.recover(objective_function.project(y))
RecoverProjected ==
    /\ call.op = "project" /\ call.err = NoError /\ ~call.chained
    /\ \E r \in {recover(self, call.ret)} :
           call' = [Call("recover", call.ret, r.err, r.ret)
                      EXCEPT !.chained = TRUE, !.src = call.arg]
    /\ UNCHANGED <<eq, objectives, constraints, self, derivative, heap>>

\* objective_function.unpack_state(x)
UnpackState ==
    /\ \E n \in {self.dim_x, self.dim_y, self.dim_y + 1} :
       \E x \in Probes(n) :
         \E r \in {unpack_state(self, x)} :
             call' = [Call("unpack_state", Arr1(x), r.err, NoValue)
                        EXCEPT !.kw = r.kw]
    /\ UNCHANGED <<eq, objectives, constraints, self, derivative, heap>>

\* objective_function.compute_scalar(x)
ComputeScalar ==
    /\ \E x \in Probes(self.dim_x) :
         \E r \in {of_compute_scalar(self, objectives, x)} :
             call' = Call("compute_scalar", Arr1(x), r.err, r.ret)
    /\ UNCHANGED <<eq, objectives, constraints, self, derivative, heap>>

\* objectives[i].compute_scalar(arg), on a built objective
ObjectiveComputeScalar ==
    /\ \E i \in 1..Len(objectives) :
         /\ objectives[i].built
         /\ \E x \in Probes(objectives[i].dimensions[objectives[i].args[1]]) :
              call' = [Call("objective.compute_scalar", Arr1(x), NoError,
                            Arr0(obj_compute_scalar(objectives[i], x)))
                         EXCEPT !.who = i]
    /\ UNCHANGED <<eq, objectives, constraints, self, derivative, heap>>

\* operations that test built themselves, or start with one that does:
\* compute, callback go through unpack_state; y reads dim_y; x calls y
CheckedOperations ==
    {"compute", "callback", "x", "y", "scalar", "dim_x", "dim_y",
     "dim_c", "dim_f", "A", "Ainv", "b", "y0", "Z"}

\* grad, hess, jac read self._grad, self._hess, self._jac, which only
\* _set_derivatives, at the end of build, creates
DerivativeOperations == {"grad", "hess", "jac"}

\* what the operation raises on an ObjectiveFunction that was never built
unbuilt_error(name) ==
    IF name \in DerivativeOperations THEN AttributeError ELSE NotBuilt

\* one of those operations is called on an ObjectiveFunction that is not
\* built; it raises and changes nothing
CallUnbuilt ==
    /\ ~self.built
    /\ \E name \in CheckedOperations \cup DerivativeOperations :
          call' = Call(name, NoValue, unbuilt_error(name), NoValue)
    /\ UNCHANGED <<eq, objectives, constraints, self, derivative, heap>>

\* objective_function.make_feasible(y)
MakeFeasible ==
    /\ \E y \in Probes(self.dim_y) \cup NearY0(self) :
         \E r \in {make_feasible(self, Arr1(y))} :
             call' = Call("make_feasible", Arr1(y), r.err, r.ret)
    /\ UNCHANGED <<eq, objectives, constraints, self, derivative, heap>>

\* objective_function.make_feasible(objective_function.make_feasible(y))
MakeFeasibleAgain ==
    /\ call.op = "make_feasible" /\ call.err = NoError /\ ~call.chained
    /\ \E r \in {make_feasible(self, call.ret)} :
           call' = [Call("make_feasible", call.ret, r.err, r.ret)
                      EXCEPT !.chained = TRUE, !.src = call.arg]
    /\ UNCHANGED <<eq, objectives, constraints, self, derivative, heap>>

NextCalls ==
    \/ Build
    \/ MakeFeasible
    \/ MakeFeasibleAgain
    \/ CallUnbuilt
    \/ Recover
    \/ Project
    \/ ProjectRecovered
    \/ RecoverProjected
    \/ UnpackState
    \/ ComputeScalar
    \/ ObjectiveComputeScalar

SpecCalls == InitCalls /\ [][NextCalls]_vars

\* the sessions that build and then compile
NextCompile == Build \/ Compile

SpecCompile == InitCalls /\ [][NextCompile]_vars

-----------------------------------------------------------------------------
(* GenericObjective (desc/objectives/_generic.py).                         *)

KeyError == "KeyError"

\* the inputs build() makes itself: transforms and profiles
TransformNames == {"R_transform", "Z_transform", "L_transform", "B_transform", "w_transform"}
ProfileNames == {"pressure", "iota", "current"}

\* the key of data_index[f] build() reads for a transform's derivs;
\* "" where it passes a literal
derivs_key(arg) ==
    CASE arg \in {"R_transform", "Z_transform"} -> "R_derivs"
      [] arg = "L_transform" -> "L_derivs"
      [] OTHER -> ""

\* one pass of the loop over the parameters of the compute function:
\* g holds err, args and inputs (pairs <<name, value>>); keys are the keys
\* of data_index[f], avail the profiles of the equilibrium that are not None
generic_input(g, arg, keys, avail) ==
    IF g.err # NoError THEN g
    ELSE IF arg \in ArgSet THEN [g EXCEPT !.args = Append(g.args, arg)]
    ELSE IF arg \in TransformNames
    THEN IF derivs_key(arg) # "" /\ derivs_key(arg) \notin keys
         THEN [g EXCEPT !.err = KeyError]
         ELSE [g EXCEPT !.inputs = Append(g.inputs, <<arg, "Transform">>)]
    ELSE IF arg = "pressure"
    THEN IF arg \in avail
         THEN [g EXCEPT !.inputs = Append(g.inputs, <<arg, "Profile">>)]
         ELSE [g EXCEPT !.err = AttributeError]
    ELSE IF arg \in {"iota", "current"}
    THEN [g EXCEPT !.inputs = Append(g.inputs,
                       <<arg, IF arg \in avail THEN "Profile" ELSE "None">>)]
    ELSE g

RECURSIVE generic_inputs(_, _, _, _)
generic_inputs(g, params, keys, avail) ==
    IF params = <<>> THEN g
    ELSE generic_inputs(generic_input(g, Head(params), keys, avail),
                        Tail(params), keys, avail)

\* GenericObjective.build up to self._args = args: dim_f is the number of
\* grid nodes, inputs starts as {"data": None}
generic_build(params, keys, avail) ==
    generic_inputs([err |-> NoError, args |-> <<>>, inputs |-> <<<<"data", "None">>>>],
                   params, keys, avail)

\* parameter lists of compute functions
Signatures ==
    { <<"R_lmn", "R_transform">>,
      <<"Z_lmn", "Z_transform">>,
      <<"L_lmn", "L_transform">>,
      <<"p_l", "pressure">>,
      <<"i_l", "iota">>,
      <<"R_lmn", "Z_lmn", "L_lmn", "i_l", "Psi", "R_transform", "Z_transform",
        "L_transform", "iota">>,
      <<"R_lmn", "Z_lmn", "c_l", "R_transform", "Z_transform", "current",
        "pressure">> }

\* A profile object: where it comes from ("eq.pressure", "eq.iota",
\* "eq.current", "caller" or "copy"), params.size and the name of its grid
Profile(origin, size, grid) == [origin |-> origin, size |-> size, grid |-> grid]

\* the profile `name` of the equilibrium
EqProfile(name, e) == Profile("eq." \o name, Len(e.pmodes), "eq.grid")

\* profile.copy(): a new object with the same params and grid
copy(p) == [p EXCEPT !.origin = "copy"]

\* self.grid after `if self.grid is None: self.grid = QuadratureGrid(...)`
generic_grid(o) == IF o.grid = "" THEN "QuadratureGrid" ELSE o.grid

\* the profiles among the inputs: inputs[arg] = eq.<arg>.copy();
\* inputs[arg].grid = self.grid
RECURSIVE input_profiles(_, _, _)
input_profiles(inputs, e, g) ==
    IF inputs = <<>> THEN <<>>
    ELSE (IF Head(inputs)[2] = "Profile"
          THEN <<[copy(EqProfile(Head(inputs)[1], e)) EXCEPT !.grid = g]>>
          ELSE <<>>)
         \o input_profiles(Tail(inputs), e, g)

-----------------------------------------------------------------------------
(* Calls on a single objective.                                            *)

\* objective.target = v: the setter stores v and runs _check_dimensions,
\* which reads dim_f; before build there is no _dim_f yet, and the stored
\* array is what build() will find
assign_target(o, v) ==
    IF o.hasdim THEN set_target(o, v)
    ELSE [o EXCEPT !.target = v, !.arg_target = v, !.err = AttributeError]

\* objective.weight = v
assign_weight(o, v) ==
    IF o.hasdim THEN set_weight(o, v)
    ELSE [o EXCEPT !.weight = v, !.arg_weight = v, !.err = AttributeError]

\* the configurations of a Fixed* objective a caller may construct: the
\* defaults, one value per listed mode, a target longer than the list of
\* modes, a target longer than the basis, and a weight longer than the basis
FixedConfigs(kind) ==
    { Objective(kind, <<None>>, <<R(1)>>, TRUE, <<>>),
      Objective(kind, GivenTarget(NumModes), GivenWeight(NumModes), FALSE,
                AllModesListed),
      Objective(kind, GivenTarget(NumModes), <<R(1)>>, FALSE, <<1>>),
      Objective(kind, GivenTarget(NumModes + 1), <<R(1)>>, TRUE, <<>>),
      Objective(kind, <<None>>, GivenWeight(NumModes + 1), TRUE, <<>>) }

\* the objectives of the sessions that work on one objective
SingleObjectiveMenu ==
    UNION {FixedConfigs(kind) : kind \in FixedKinds} \cup
    { Objective("FixedPsi", <<None>>, <<R(1)>>, TRUE, <<>>),
      Objective("FixedPsi", <<R(2)>>, <<R(1)>>, TRUE, <<>>),
      Objective("FixedPsi", GivenTarget(NumModes), <<R(1)>>, TRUE, <<>>),
      Objective("GenericObjective", <<R(0)>>, <<R(1)>>, TRUE, <<>>) }

\* the arrays assigned to target and weight: one value, one value repeated,
\* and distinct values, of lengths up to NumModes + 1
AssignedValues ==
    { <<R(5)>>, Repeat(R(5), NumModes + 1),
      [k \in 1..NumModes |-> R(k + 4)], [k \in 1..(NumModes + 1) |-> R(k + 4)] }

InitObjective ==
    /\ eq = Equilibrium(0, NumModes)
    /\ constraints = <<>>
    /\ objectives \in {<<o>> : o \in SingleObjectiveMenu}
    /\ self = NewObjectiveFunction
    /\ call = Call("new", NoValue, NoError, NoValue)
    /\ derivative = NoDerivative
    /\ heap = NoHeap

\* objective.build(eq)
ObjectiveBuild ==
    /\ linear(objectives[1])
    /\ ~objectives[1].hasdim
    /\ \E o \in {build(objectives[1], eq)} :
          /\ objectives' = <<o>>
          /\ call' = Call("objective.build", NoValue, o.err, NoValue)
    /\ UNCHANGED <<eq, constraints, self, derivative, heap>>

\* objective.target = v
SetTarget ==
    /\ \E v \in AssignedValues :
         \E o \in {assign_target(objectives[1], v)} :
            /\ objectives' = <<o>>
            /\ call' = Call("set_target", Arr1(v), o.err, NoValue)
    /\ UNCHANGED <<eq, constraints, self, derivative, heap>>

\* objective.weight = v
SetWeight ==
    /\ \E v \in AssignedValues :
         \E o \in {assign_weight(objectives[1], v)} :
            /\ objectives' = <<o>>
            /\ call' = Call("set_weight", Arr1(v), o.err, NoValue)
    /\ UNCHANGED <<eq, constraints, self, derivative, heap>>

\* GenericObjective(f).build(eq), for a quantity f whose compute function
\* has the parameters params and whose data_index entry has the keys keys,
\* and an equilibrium whose profiles avail are not None.  The copies of the
\* profiles are new objects of the heap.
GenericBuild ==
    \E i \in 1..Len(objectives) :
       /\ ~linear(objectives[i])
       /\ ~objectives[i].hasdim
       /\ \E params \in Signatures, keys \in SUBSET {"R_derivs", "L_derivs"},
             avail \in SUBSET ProfileNames :
          \E g \in {generic_build(params, keys, avail)} :
          \E cp \in {input_profiles(g.inputs, eq, generic_grid(objectives[i]))} :
             /\ objectives' =
                  [objectives EXCEPT ![i] =
                     [@ EXCEPT !.hasdim = TRUE, !.dim_f = eq.nint,
                               !.err = g.err,
                               !.args = IF g.err = NoError THEN g.args ELSE <<>>,
                               !.grid = generic_grid(objectives[i]),
                               !.profiles = [k \in 1..Len(cp) |-> Len(heap) + k]]]
             /\ heap' = heap \o cp
             /\ call' = [Call("generic.build", NoValue, g.err, NoValue)
                           EXCEPT !.kw = [params |-> params, keys |-> keys,
                                          avail |-> avail, inputs |-> g.inputs],
                                  !.who = i]
       /\ UNCHANGED <<eq, constraints, self, derivative>>

NextObjective == ObjectiveBuild \/ GenericBuild \/ SetTarget \/ SetWeight

SpecObjective == InitObjective /\ [][NextObjective]_vars

-----------------------------------------------------------------------------
(* Objectives that hold profiles: TargetIota (linear_objectives.py) and    *)
(* GenericObjective.  The heap is the sequence of the profile objects;     *)
(* an objective refers to a profile by its position.                       *)

\* position of eq.iota in the heap (eq.pressure is at position 1)
IotaRef == 2

\* positions of the profiles the caller made: one with as many parameters
\* as the equilibrium's profiles (eq.L + 1), one with one more
CallerRefs == {3, 4}

\* grid.num_nodes of the grids of the model
GridNodes == 2

\* if self.profile is None or self.profile.params.size != eq.L + 1:
\*     self.profile = eq.iota.copy()
target_iota_profile(o, h, e) ==
    IF o.profile = 0 \/ h[o.profile].size # Len(e.pmodes)
    THEN [obj |-> [o EXCEPT !.profile = Len(h) + 1],
          heap |-> Append(h, copy(h[IotaRef]))]
    ELSE [obj |-> o, heap |-> h]

\* self.grid after `if self.grid is None: self.grid = LinearGrid(...)`
iota_grid(o) == IF o.grid = "" THEN "LinearGrid" ELSE o.grid

\* self._dim_f = self.grid.num_nodes; self.profile.grid = self.grid
target_iota_grid(r) ==
    [obj |-> [r.obj EXCEPT !.grid = iota_grid(r.obj), !.dim_f = GridNodes,
                           !.hasdim = TRUE, !.err = NoError],
     heap |-> [r.heap EXCEPT ![r.obj.profile].grid = iota_grid(r.obj)]]

\* _set_dimensions, _set_derivatives, _built = True of TargetIota; the
\* Jacobian of its compute is not read in these sessions and left out
finish_iota(o, e) ==
    IF o.err # NoError THEN o
    ELSE [o EXCEPT !.dimensions = set_dimensions(e), !.args = compute_args(o),
                   !.built = TRUE]

\* TargetIota.build(eq): the object and the heap after it
target_iota_build(o, h, e) ==
    [obj  |-> finish_iota(check_dimensions(
                  target_iota_grid(target_iota_profile(o, h, e)).obj), e),
     heap |-> target_iota_grid(target_iota_profile(o, h, e)).heap]

\* TargetIota(profile=.., grid=..) and GenericObjective(f, grid=..) as a
\* caller may construct them
ProfileObjectives ==
    {[Objective("TargetIota", <<R(0)>>, <<R(1)>>, TRUE, <<>>)
        EXCEPT !.profile = p, !.grid = g] :
        p \in {0, IotaRef} \cup CallerRefs, g \in {"", "gridA", "gridB"}}
    \cup
    {[Objective("GenericObjective", <<R(0)>>, <<R(1)>>, TRUE, <<>>)
        EXCEPT !.grid = g] : g \in {"", "gridA"}}

InitProfiles ==
    /\ eq = Equilibrium(0, NumModes)
    /\ constraints = <<>>
    /\ objectives \in [1..1 -> ProfileObjectives] \cup [1..2 -> ProfileObjectives]
    /\ self = NewObjectiveFunction
    /\ call = Call("new", NoValue, NoError, NoValue)
    /\ derivative = NoDerivative
    /\ heap = <<EqProfile("pressure", eq), EqProfile("iota", eq),
                Profile("caller", NumModes, "caller.grid"),
                Profile("caller", NumModes + 1, "caller.grid")>>

\* objectives[i].build(eq) of a TargetIota
TargetIotaBuild ==
    \E i \in 1..Len(objectives) :
       /\ objectives[i].kind = "TargetIota"
       /\ ~objectives[i].hasdim
       /\ \E r \in {target_iota_build(objectives[i], heap, eq)} :
             /\ objectives' = [objectives EXCEPT ![i] = r.obj]
             /\ heap' = r.heap
             /\ call' = [Call("target_iota.build", NoValue, r.obj.err, NoValue)
                           EXCEPT !.who = i]
       /\ UNCHANGED <<eq, constraints, self, derivative>>

NextProfiles == TargetIotaBuild \/ GenericBuild

SpecProfiles == InitProfiles /\ [][NextProfiles]_vars

-----------------------------------------------------------------------------
(* desc/derivatives.py: the derivative strategies.                         *)

InvalidMode == "ValueError: invalid mode option"

\* the list the mode setter of AutoDiffDerivative tests membership in
AutoDiffModes == {"fwd", "rev", "grad", "hess", "jvp"}

\* the list the mode setter of FiniteDiffDerivative tests membership in
FiniteDiffModes == {"fwd", "rev", "grad", "hess", "jvp"}

\* AutoDiffDerivative.mode setter: the function _compute is bound to
autodiff_compute(mode) ==
    CASE mode = "fwd"  -> "jax.jacfwd"
      [] mode = "rev"  -> "jax.jacrev"
      [] mode = "grad" -> "jax.grad"
      [] mode = "hess" -> "jax.hessian"
      [] OTHER         -> "_compute_jvp"

\* FiniteDiffDerivative.mode setter: the method _compute is bound to
finitediff_compute(mode) ==
    CASE mode \in {"fwd", "rev", "grad"} -> "_compute_grad_or_jac"
      [] mode = "hess" -> "_compute_hessian"
      [] OTHER         -> "_compute_jvp"

\* AutoDiffDerivative.mode setter on the object d
autodiff_set_mode(d, mode) ==
    IF mode \notin AutoDiffModes THEN [err |-> InvalidMode, obj |-> NoDerivative]
    ELSE [err |-> NoError,
          obj |-> [d EXCEPT !.mode = mode, !.compute = autodiff_compute(mode)]]

\* the FiniteDiffDerivative.mode setter without its membership test
finitediff_set_mode_unchecked(d, mode) ==
    [err |-> NoError,
     obj |-> [d EXCEPT !.mode = mode, !.compute = finitediff_compute(mode)]]

\* FiniteDiffDerivative.mode setter on the object d
finitediff_set_mode(d, mode) ==
    IF mode \notin FiniteDiffModes THEN [err |-> InvalidMode, obj |-> NoDerivative]
    ELSE [err |-> NoError,
          obj |-> [d EXCEPT !.mode = mode, !.compute = finitediff_compute(mode)]]

\* the object __init__ has filled in before it assigns self.mode
NewDerivative(cls, nargs, argnum) ==
    [cls |-> cls, nargs |-> nargs, argnum |-> argnum, mode |-> "", compute |-> ""]

\* AutoDiffDerivative(fun, argnum, mode) / FiniteDiffDerivative(fun, argnum,
\* mode); fun takes nargs positional arguments
new_derivative(cls, nargs, argnum, mode) ==
    IF cls = "AutoDiffDerivative"
    THEN autodiff_set_mode(NewDerivative(cls, nargs, argnum), mode)
    ELSE finitediff_set_mode(NewDerivative(cls, nargs, argnum), mode)

\* the differentiated function: fun(a_0, .., a_n-1) = sum of (k + 1) * a_k
fun(args) == QSum([k \in 1..Len(args) |-> QMul(R(k), args[k])])

\* jax.jvp(fun, primals, tangents) of that function: its value at the
\* primals and its derivative along the tangents
jvp(primals, tangents) == <<fun(primals), fun(tangents)>>

\* tangents = list(args); tangents[self.argnum] = v
jvp_tangents(d, v, args) == [args EXCEPT ![d.argnum + 1] = v]

\* AutoDiffDerivative._compute_jvp(v, *args)
compute_jvp(d, v, args) ==
    [err |-> NoError, tangents |-> jvp_tangents(d, v, args),
     ret |-> Arr1(jvp(args, jvp_tangents(d, v, args)))]

\* jax.jacfwd / jacrev / grad / hessian (fun, argnum)(*args) of that function
compute_jac(d, args) ==
    [err |-> NoError, tangents |-> <<>>,
     ret |-> Arr0(IF d.mode = "hess" THEN R(0) ELSE R(d.argnum + 1))]

\* mode strings handed to the constructors
ModeInputs == AutoDiffModes \cup FiniteDiffModes \cup {"jac", "FWD", "looped"}

\* scalar arguments of the differentiated function
Scalars == {R(a) : a \in 0..MaxVal}

InitDerivative ==
    /\ eq = Equilibrium(0, NumModes)
    /\ constraints = <<>>
    /\ objectives = <<>>
    /\ self = NewObjectiveFunction
    /\ call = Call("new", NoValue, NoError, NoValue)
    /\ derivative = NoDerivative
    /\ heap = NoHeap

\* nothing has been constructed or attempted in this session
NoneYet == derivative = NoDerivative /\ call.op = "new"

\* d = AutoDiffDerivative(fun, argnum, mode) or
\* d = FiniteDiffDerivative(fun, argnum, mode); there is no d when the
\* constructor raises
Construct ==
    /\ NoneYet
    /\ \E cls \in {"AutoDiffDerivative", "FiniteDiffDerivative"}, mode \in ModeInputs :
       \E nargs \in 1..MaxArgs :
       \E argnum \in 0..(nargs - 1) :
       \E r \in {new_derivative(cls, nargs, argnum, mode)} :
          /\ derivative' = r.obj
          /\ call' = [Call("derivative.new", NoValue, r.err, NoValue)
                        EXCEPT !.kw = [cls |-> cls, mode |-> mode, argnum |-> argnum]]
    /\ UNCHANGED <<eq, objectives, constraints, self, heap>>

\* d.compute(v, *args) of an AutoDiffDerivative in 'jvp' mode
ComputeJvp ==
    /\ derivative.cls = "AutoDiffDerivative"
    /\ derivative.compute = "_compute_jvp"
    /\ \E v \in Scalars, args \in [1..derivative.nargs -> Scalars] :
       \E r \in {compute_jvp(derivative, v, args)} :
          call' = [Call("derivative.jvp", Arr1(args), r.err, r.ret)
                     EXCEPT !.kw = [v |-> v, tangents |-> r.tangents]]
    /\ UNCHANGED <<eq, objectives, constraints, self, derivative, heap>>

\* d.compute(*args) of an AutoDiffDerivative in another mode
ComputeJac ==
    /\ derivative.cls = "AutoDiffDerivative"
    /\ derivative.compute # "_compute_jvp"
    /\ \E args \in [1..derivative.nargs -> Scalars] :
       \E r \in {compute_jac(derivative, args)} :
          call' = Call("derivative.compute", Arr1(args), r.err, r.ret)
    /\ UNCHANGED <<eq, objectives, constraints, self, derivative, heap>>

-----------------------------------------------------------------------------
(* BroydenJacobian and BlockJacobian (desc/derivatives.py; the classes of  *)
(* the same names in desc/backend.py spell compute as __call__).           *)

\* the vector function handed to the Jacobian classes, with n outputs:
\* f_i(x) = i * x_1^2 + x_(i mod M + 1)
vfun(x, n) ==
    [i \in 1..n |-> QAdd(QMul(R(i), QMul(x[1], x[1])), x[(i % Len(x)) + 1])]

\* row i of the Jacobian of vfun at x
JacRow(x, i) ==
    [j \in 1..Len(x) |->
        QAdd(IF j = 1 THEN QMul(R(2 * i), x[1]) ELSE R(0),
             IF j = (i % Len(x)) + 1 THEN R(1) ELSE R(0))]

\* an array object: its value, whether it can be changed in place (a numpy
\* array can, a jax array cannot) and whether the caller holds a reference
\* to it
NewArray(v, inplace, held) == [v |-> v, inplace |-> inplace, held |-> held]

\* the position in heap of the array self.J names after __init__
FirstRef == 1

\* BroydenJacobian.__init__(fun, x0, f0, J0, minstep); J0 = <<>> stands for
\* J0=None.  J is the value of the array self.J names, Jref its position in
\* heap; evals counts the evaluations of fun, calls the compute calls.
NewBroyden(x0, f0, J0, minstep) ==
    [cls |-> "BroydenJacobian", x0 |-> x0, f0 |-> f0,
     J |-> IF J0 = <<>> THEN Eye(Len(x0)) ELSE J0, Jref |-> FirstRef,
     minstep |-> minstep, x1 |-> x0, f1 |-> f0, evals |-> 0, calls |-> 0]

\* self.J = J0 if J0 is not None else np.eye(*self.shape): the caller's own
\* array, or a new numpy array nobody else holds yet
first_array(J0, jax) ==
    IF J0 = <<>> THEN NewArray(Eye(2), TRUE, FALSE)
    ELSE NewArray(J0, ~jax, TRUE)

\* step < minstep for step = np.linalg.norm(dx), both not negative
StepBelow(dx, minstep) == Dot(dx, dx)[1] < minstep * minstep * Dot(dx, dx)[2]

\* update = (df - J.dot(dx)) / step**2; update[:, newaxis] * dx[newaxis, :]
broyden_update(J, dx, df) ==
    [i \in 1..Len(J) |->
        [j \in 1..Len(dx) |->
            QMul(QDiv(QSub(df[i], Dot(J[i], dx)), Dot(dx, dx)), dx[j])]]

\* self.J += update
MatAdd(A, B) == [i \in 1..Len(A) |-> VAdd(A[i], B[i])]

\* the else branch of compute: fun is evaluated and J updated
broyden_apply(d, x, f1) ==
    [d EXCEPT !.x0 = d.x1, !.f0 = d.f1, !.x1 = x, !.f1 = f1,
              !.J = MatAdd(d.J, broyden_update(d.J, VSub(x, d.x1), VSub(f1, d.f1))),
              !.evals = d.evals + 1, !.calls = d.calls + 1]

\* compute that updates on every step that is not zero, whatever minstep
broyden_compute_eager(d, x) ==
    IF x = d.x1
    THEN [d EXCEPT !.x0 = d.x1, !.f0 = d.f1, !.x1 = x, !.calls = d.calls + 1]
    ELSE broyden_apply(d, x, vfun(x, Len(d.f1)))

\* BroydenJacobian.compute(x): the object after the call; the call returns
\* its J
broyden_compute(d, x) ==
    IF StepBelow(VSub(x, d.x1), d.minstep)
    THEN [d EXCEPT !.x0 = d.x1, !.f0 = d.f1, !.x1 = x, !.calls = d.calls + 1]
    ELSE broyden_apply(d, x, vfun(x, Len(d.f1)))

\* self.J += update, from the object d0 before the call to d after it: a
\* numpy array is changed in place, for a jax array self.J is bound to a
\* new array; a skipped step leaves heap alone
iadd_J(h, d0, d) ==
    IF d.evals = d0.evals THEN [heap |-> h, ref |-> d0.Jref]
    ELSE IF h[d0.Jref].inplace
         THEN [heap |-> [h EXCEPT ![d0.Jref].v = d.J], ref |-> d0.Jref]
         ELSE [heap |-> Append(h, NewArray(d.J, FALSE, FALSE)),
               ref |-> Len(h) + 1]

\* return self.J: the caller now holds the array self.J names
return_J(r) == [r EXCEPT !.heap[r.ref].held = TRUE]

\* points x of the plane with entries 0..MaxVal+1
BroydenPoints == [1..2 -> {R(a) : a \in 0..(MaxVal + 1)}]

\* Jacobian estimates J0 handed to the constructor: None and a matrix
BroydenEstimates == {<<>>, <<<<R(1), R(1)>>, <<R(0), R(2)>>>>}

\* d = BroydenJacobian(fun, x0, fun(x0), J0, minstep)
ConstructBroyden ==
    /\ NoneYet
    /\ \E x0 \in BroydenPoints, J0 \in BroydenEstimates, minstep \in 1..2,
          jax \in BOOLEAN :
          /\ J0 = <<>> => ~jax
          /\ derivative' = NewBroyden(x0, vfun(x0, 2), J0, minstep)
          /\ heap' = <<first_array(J0, jax)>>
          /\ call' = Call("broyden.new", Arr1(x0), NoError, NoValue)
    /\ UNCHANGED <<eq, objectives, constraints, self>>

\* J = d.compute(x)
BroydenCompute ==
    /\ derivative.cls = "BroydenJacobian"
    /\ derivative.calls < MaxSteps
    /\ \E x \in BroydenPoints :
       \E d \in {broyden_compute(derivative, x)} :
       \E r \in {return_J(iadd_J(heap, derivative, d))} :
          /\ derivative' = [d EXCEPT !.Jref = r.ref]
          /\ heap' = r.heap
          /\ call' = Call("broyden.compute", Arr1(x), NoError,
                          Arr2(r.heap[r.ref].v))
    /\ UNCHANGED <<eq, objectives, constraints, self>>

NameError == "NameError: name 'jacrev' is not defined"
BothGiven == "ValueError: can specify either block_size or num_blocks, not both"

\* np.ceil(a / b) for positive integers
CeilDiv(a, b) == (a + b - 1) \div b

\* block_size and num_blocks as __init__ resolves them; 0 stands for None
block_sizes(N, block_size, num_blocks) ==
    IF block_size = 0 /\ num_blocks = 0 THEN [block_size |-> N, num_blocks |-> 1]
    ELSE IF block_size # 0
    THEN [block_size |-> block_size, num_blocks |-> CeilDiv(N, block_size)]
    ELSE [block_size |-> CeilDiv(N, num_blocks), num_blocks |-> num_blocks]

\* the loop that fills f_blocks and jac_blocks: desc/backend.py defines
\* jacrev, desc/derivatives.py neither defines nor imports it
block_loop(module, N, M, bs) ==
    IF module = "desc.derivatives" /\ bs.num_blocks >= 1
    THEN [err |-> NameError, obj |-> NoDerivative]
    ELSE [err |-> NoError,
          obj |-> [cls |-> "BlockJacobian", module |-> module, N |-> N, M |-> M,
                   block_size |-> bs.block_size, num_blocks |-> bs.num_blocks]]

\* BlockJacobian(fun, N, M, block_size, num_blocks)
new_block(module, N, M, block_size, num_blocks) ==
    IF block_size # 0 /\ num_blocks # 0
    THEN [err |-> BothGiven, obj |-> NoDerivative]
    ELSE block_loop(module, N, M, block_sizes(N, block_size, num_blocks))

Min(a, b) == IF a < b THEN a ELSE b

\* the rows fun(x)[i*block_size : (i+1)*block_size] selects (a slice stops
\* at the end of the array), for block i = 0, 1, ..
block_rows(d, i) ==
    [k \in 1..(Min((i + 1) * d.block_size, d.N) - Min(i * d.block_size, d.N)) |->
        Min(i * d.block_size, d.N) + k]

\* jacrev(f_blocks[i])(x): the Jacobian rows of the outputs of block i
jac_block(d, x, i) == [k \in 1..Len(block_rows(d, i)) |-> JacRow(x, block_rows(d, i)[k])]

RECURSIVE VStackFrom(_, _, _)
VStackFrom(d, x, i) ==
    IF i >= d.num_blocks THEN <<>>
    ELSE jac_block(d, x, i) \o VStackFrom(d, x, i + 1)


\* BlockJacobian.compute(x): np.vstack([jac(x) for jac in self.jac_blocks])
block_compute(d, x) == VStackFrom(d, x, 0)

\* the unblocked computation: the Jacobian of fun at x, N rows
full_jacobian(x, N) == [i \in 1..N |-> JacRow(x, i)]

\* d = BlockJacobian(fun, N, M, block_size=.., num_blocks=..) of either
\* module; there is no d when the constructor raises
ConstructBlock ==
    /\ NoneYet
    /\ \E module \in {"desc.backend", "desc.derivatives"}, N \in 1..MaxRows :
       \E block_size \in 0..N, num_blocks \in 0..N :
       \E r \in {new_block(module, N, 2, block_size, num_blocks)} :
          /\ derivative' = r.obj
          /\ call' = [Call("block.new", NoValue, r.err, NoValue)
                        EXCEPT !.kw = [module |-> module, N |-> N,
                                       block_size |-> block_size,
                                       num_blocks |-> num_blocks]]
    /\ UNCHANGED <<eq, objectives, constraints, self, heap>>

\* J = d.compute(x)
BlockCompute ==
    /\ derivative.cls = "BlockJacobian"
    /\ \E x \in BroydenPoints :
          call' = Call("block.compute", Arr1(x), NoError,
                       Arr2(block_compute(derivative, x)))
    /\ UNCHANGED <<eq, objectives, constraints, self, derivative, heap>>

NextDerivative ==
    \/ Construct
    \/ ComputeJvp
    \/ ComputeJac
    \/ ConstructBroyden
    \/ BroydenCompute
    \/ ConstructBlock
    \/ BlockCompute

SpecDerivative == InitDerivative /\ [][NextDerivative]_vars

-----------------------------------------------------------------------------
(* desc/compute: the registered compute functions of the cartesian        *)
(* modules.  Every function has the signature                             *)
(* (params, transforms, profiles, data, **kwargs); data is a dict, here   *)
(* the mapping held at position DataRef of heap.                          *)

\* desc/compute/_core_cartesian.py: the registered functions, each with the
\* name and the data dependencies of its register_compute_fun decorator, the
\* key its body assigns, the expression assigned and what it returns.
CoreCartesian ==
    {
      [name |-> "X", data |-> {"R", "phi"},
       key |-> "X", expr |-> "copy", reads |-> <<"R">>, returns |-> "data"],
      [name |-> "X_r", data |-> {"R", "R_r", "phi", "phi_r"},
       key |-> "X_r", expr |-> "copy", reads |-> <<"R_r">>, returns |-> "data"],
      [name |-> "X_t", data |-> {"R", "R_t", "phi", "phi_t"},
       key |-> "X_t", expr |-> "copy", reads |-> <<"R_t">>, returns |-> "data"],
      [name |-> "X_z", data |-> {"R", "R_z", "phi", "phi_z"},
       key |-> "X_z", expr |-> "copy", reads |-> <<"R_z">>, returns |-> "data"],
      [name |-> "Y", data |-> {"R", "phi"},
       key |-> "Y", expr |-> "copy", reads |-> <<"phi">>, returns |-> "data"],
      [name |-> "Y_r", data |-> {"phi_r"},
       key |-> "Y_r", expr |-> "copy", reads |-> <<"phi_r">>, returns |-> "data"],
      [name |-> "Y_t", data |-> {"phi_t"},
       key |-> "Y_t", expr |-> "copy", reads |-> <<"phi_t">>, returns |-> "data"],
      [name |-> "Y_z", data |-> {"phi_z"},
       key |-> "Y_z", expr |-> "copy", reads |-> <<"phi_z">>, returns |-> "data"] }

\* desc/compute/_basis_vectors_cartesian.py
BasisVectorsCartesian ==
    {
      [name |-> "e_rho", data |-> {"R_r", "Z_r", "omega_r"},
       key |-> "e_rho", expr |-> "stack", reads |-> <<"R_r", "omega_r", "Z_r">>, returns |-> "data"],
      [name |-> "e_rho_r", data |-> {"R_rr", "Z_rr", "omega_rr"},
       key |-> "e_rho_r", expr |-> "stack", reads |-> <<"R_rr", "omega_rr", "Z_rr">>, returns |-> "data"],
      [name |-> "e_rho_rr", data |-> {"R_rrr", "Z_rrr", "omega_rrr"},
       key |-> "e_rho_rr", expr |-> "stack", reads |-> <<"R_rrr", "omega_rrr", "Z_rrr">>, returns |-> "data"],
      [name |-> "e_rho_rrr", data |-> {"R_rrrr", "Z_rrrr", "omega_rrrr"},
       key |-> "e_rho_rrr", expr |-> "stack", reads |-> <<"R_rrrr", "omega_rrrr", "Z_rrrr">>, returns |-> "data"],
      [name |-> "e_rho_rrt", data |-> {"R_rrrt", "Z_rrrt", "omega_rrrt"},
       key |-> "e_rho_rrt", expr |-> "stack", reads |-> <<"R_rrrt", "omega_rrrt", "Z_rrrt">>, returns |-> "data"],
      [name |-> "e_rho_rrz", data |-> {"R_rrrz", "Z_rrrz", "omega_rrrz"},
       key |-> "e_rho_rrz", expr |-> "stack", reads |-> <<"R_rrrz", "omega_rrrz", "Z_rrrz">>, returns |-> "data"],
      [name |-> "e_rho_rt", data |-> {"R_rrt", "Z_rrt", "omega_rrt"},
       key |-> "e_rho_rt", expr |-> "stack", reads |-> <<"R_rrt", "omega_rrt", "Z_rrt">>, returns |-> "data"],
      [name |-> "e_rho_rtt", data |-> {"R_rrtt", "Z_rrtt", "omega_rrtt"},
       key |-> "e_rho_rtt", expr |-> "stack", reads |-> <<"R_rrtt", "omega_rrtt", "Z_rrtt">>, returns |-> "data"],
      [name |-> "e_rho_rtz", data |-> {"R_rrtz", "Z_rrtz", "omega_rrtz"},
       key |-> "e_rho_rtz", expr |-> "stack", reads |-> <<"R_rrtz", "omega_rrtz", "Z_rrtz">>, returns |-> "data"],
      [name |-> "e_rho_rz", data |-> {"R_rrz", "Z_rrz", "omega_rrz"},
       key |-> "e_rho_rz", expr |-> "stack", reads |-> <<"R_rrz", "omega_rrz", "Z_rrz">>, returns |-> "data"],
      [name |-> "e_rho_rzz", data |-> {"R_rrzz", "Z_rrzz", "omega_rrzz"},
       key |-> "e_rho_rzz", expr |-> "stack", reads |-> <<"R_rrzz", "omega_rrzz", "Z_rrzz">>, returns |-> "data"],
      [name |-> "e_rho_t", data |-> {"R_rt", "Z_rt", "omega_rt"},
       key |-> "e_rho_t", expr |-> "stack", reads |-> <<"R_rt", "omega_rt", "Z_rt">>, returns |-> "data"],
      [name |-> "e_rho_tt", data |-> {"R_rtt", "Z_rtt", "omega_rtt"},
       key |-> "e_rho_tt", expr |-> "stack", reads |-> <<"R_rtt", "omega_rtt", "Z_rtt">>, returns |-> "data"],
      [name |-> "e_rho_tz", data |-> {"R_rtz", "Z_rtz", "omega_rtz"},
       key |-> "e_rho_tz", expr |-> "stack", reads |-> <<"R_rtz", "omega_rtz", "Z_rtz">>, returns |-> "data"],
      [name |-> "e_rho_z", data |-> {"R_rz", "Z_rz", "omega_rz"},
       key |-> "e_rho_z", expr |-> "stack", reads |-> <<"R_rz", "omega_rz", "Z_rz">>, returns |-> "data"],
      [name |-> "e_rho_zz", data |-> {"R_rzz", "Z_rzz", "omega_rzz"},
       key |-> "e_rho_zz", expr |-> "stack", reads |-> <<"R_rzz", "omega_rzz", "Z_rzz">>, returns |-> "data"],
      [name |-> "e_theta", data |-> {"R_t", "Z_t", "omega_t"},
       key |-> "e_theta", expr |-> "stack", reads |-> <<"R_t", "omega_t", "Z_t">>, returns |-> "data"],
      [name |-> "e_theta_r", data |-> {"R_rt", "Z_rt", "omega_rt"},
       key |-> "e_theta_r", expr |-> "stack", reads |-> <<"R_rt", "omega_rt", "Z_rt">>, returns |-> "data"],
      [name |-> "e_theta_rr", data |-> {"R_rrt", "Z_rrt", "omega_rrt"},
       key |-> "e_theta_rr", expr |-> "stack", reads |-> <<"R_rrt", "omega_rrt", "Z_rrt">>, returns |-> "data"],
      [name |-> "e_theta_rrr", data |-> {"R_rrrt", "Z_rrrt", "omega_rrrt"},
       key |-> "e_theta_rrr", expr |-> "stack", reads |-> <<"R_rrrt", "omega_rrrt", "Z_rrrt">>, returns |-> "data"],
      [name |-> "e_theta_rrt", data |-> {"R_rrtt", "Z_rrtt", "omega_rrtt"},
       key |-> "e_theta_rrt", expr |-> "stack", reads |-> <<"R_rrtt", "omega_rrtt", "Z_rrtt">>, returns |-> "data"],
      [name |-> "e_theta_rrz", data |-> {"R_rrtz", "Z_rrtz", "omega_rrtz"},
       key |-> "e_theta_rrz", expr |-> "stack", reads |-> <<"R_rrtz", "omega_rrtz", "Z_rrtz">>, returns |-> "data"],
      [name |-> "e_theta_rt", data |-> {"R_rtt", "Z_rtt", "omega_rtt"},
       key |-> "e_theta_rt", expr |-> "stack", reads |-> <<"R_rtt", "omega_rtt", "Z_rtt">>, returns |-> "data"],
      [name |-> "e_theta_rtt", data |-> {"R_rttt", "Z_rttt", "omega_rttt"},
       key |-> "e_theta_rtt", expr |-> "stack", reads |-> <<"R_rttt", "omega_rttt", "Z_rttt">>, returns |-> "data"],
      [name |-> "e_theta_rtz", data |-> {"R_rttz", "Z_rttz", "omega_rttz"},
       key |-> "e_theta_rtz", expr |-> "stack", reads |-> <<"R_rttz", "omega_rttz", "Z_rttz">>, returns |-> "data"],
      [name |-> "e_theta_rz", data |-> {"R_rtz", "Z_rtz", "omega_rtz"},
       key |-> "e_theta_rz", expr |-> "stack", reads |-> <<"R_rtz", "omega_rtz", "Z_rtz">>, returns |-> "data"],
      [name |-> "e_theta_rzz", data |-> {"R_rtzz", "Z_rtzz", "omega_rtzz"},
       key |-> "e_theta_rzz", expr |-> "stack", reads |-> <<"R_rtzz", "omega_rtzz", "Z_rtzz">>, returns |-> "data"],
      [name |-> "e_theta_t", data |-> {"R_tt", "Z_tt", "omega_tt"},
       key |-> "e_theta_t", expr |-> "stack", reads |-> <<"R_tt", "omega_tt", "Z_tt">>, returns |-> "data"],
      [name |-> "e_theta_tt", data |-> {"R_ttt", "Z_ttt", "omega_ttt"},
       key |-> "e_theta_tt", expr |-> "stack", reads |-> <<"R_ttt", "omega_ttt", "Z_ttt">>, returns |-> "data"],
      [name |-> "e_theta_tz", data |-> {"R_ttz", "Z_ttz", "omega_ttz"},
       key |-> "e_theta_tz", expr |-> "stack", reads |-> <<"R_ttz", "omega_ttz", "Z_ttz">>, returns |-> "data"],
      [name |-> "e_theta_z", data |-> {"R_tz", "Z_tz", "omega_tz"},
       key |-> "e_theta_z", expr |-> "stack", reads |-> <<"R_tz", "omega_tz", "Z_tz">>, returns |-> "data"],
      [name |-> "e_theta_zz", data |-> {"R_tzz", "Z_tzz", "omega_tzz"},
       key |-> "e_theta_zz", expr |-> "stack", reads |-> <<"R_tzz", "omega_tzz", "Z_tzz">>, returns |-> "data"],
      [name |-> "e_zeta", data |-> {"R_z", "Z_z", "omega_z"},
       key |-> "e_zeta", expr |-> "stack_plus_one", reads |-> <<"R_z", "omega_z", "Z_z">>, returns |-> "data"],
      [name |-> "e_zeta_r", data |-> {"R_rz", "Z_rz", "omega_rz"},
       key |-> "e_zeta_r", expr |-> "stack", reads |-> <<"R_rz", "omega_rz", "Z_rz">>, returns |-> "data"],
      [name |-> "e_zeta_rr", data |-> {"R_rrz", "Z_rrz", "omega_rrz"},
       key |-> "e_zeta_rr", expr |-> "stack", reads |-> <<"R_rrz", "omega_rrz", "Z_rrz">>, returns |-> "data"],
      [name |-> "e_zeta_rrr", data |-> {"R_rrrz", "Z_rrrz", "omega_rrrz"},
       key |-> "e_zeta_rrr", expr |-> "stack", reads |-> <<"R_rrrz", "omega_rrrz", "Z_rrrz">>, returns |-> "data"],
      [name |-> "e_zeta_rrt", data |-> {"R_rrtz", "Z_rrtz", "omega_rrtz"},
       key |-> "e_zeta_rrt", expr |-> "stack", reads |-> <<"R_rrtz", "omega_rrtz", "Z_rrtz">>, returns |-> "data"],
      [name |-> "e_zeta_rrz", data |-> {"R_rrzz", "Z_rrzz", "omega_rrzz"},
       key |-> "e_zeta_rrz", expr |-> "stack", reads |-> <<"R_rrzz", "omega_rrzz", "Z_rrzz">>, returns |-> "data"],
      [name |-> "e_zeta_rt", data |-> {"R_rtz", "Z_rtz", "omega_rtz"},
       key |-> "e_zeta_rt", expr |-> "stack", reads |-> <<"R_rtz", "omega_rtz", "Z_rtz">>, returns |-> "data"],
      [name |-> "e_zeta_rtt", data |-> {"R_rttz", "Z_rttz", "omega_rttz"},
       key |-> "e_zeta_rtt", expr |-> "stack", reads |-> <<"R_rttz", "omega_rttz", "Z_rttz">>, returns |-> "data"],
      [name |-> "e_zeta_rtz", data |-> {"R_rtzz", "Z_rtzz", "omega_rtzz"},
       key |-> "e_zeta_rtz", expr |-> "stack", reads |-> <<"R_rtzz", "omega_rtzz", "Z_rtzz">>, returns |-> "data"],
      [name |-> "e_zeta_rz", data |-> {"R_rzz", "Z_rzz", "omega_rzz"},
       key |-> "e_zeta_rz", expr |-> "stack", reads |-> <<"R_rzz", "omega_rzz", "Z_rzz">>, returns |-> "data"],
      [name |-> "e_zeta_rzz", data |-> {"R_rzzz", "Z_rzzz", "omega_rzzz"},
       key |-> "e_zeta_rzz", expr |-> "stack", reads |-> <<"R_rzzz", "omega_rzzz", "Z_rzzz">>, returns |-> "data"],
      [name |-> "e_zeta_t", data |-> {"R_tz", "Z_tz", "omega_tz"},
       key |-> "e_zeta_t", expr |-> "stack", reads |-> <<"R_tz", "omega_tz", "Z_tz">>, returns |-> "data"],
      [name |-> "e_zeta_tt", data |-> {"R_ttz", "Z_ttz", "omega_ttz"},
       key |-> "e_zeta_tt", expr |-> "stack", reads |-> <<"R_ttz", "omega_ttz", "Z_ttz">>, returns |-> "data"],
      [name |-> "e_zeta_tz", data |-> {"R_tzz", "Z_tzz", "omega_tzz"},
       key |-> "e_zeta_tz", expr |-> "stack", reads |-> <<"R_tzz", "omega_tzz", "Z_tzz">>, returns |-> "data"],
      [name |-> "e_zeta_z", data |-> {"R_zz", "Z_zz", "omega_zz"},
       key |-> "e_zeta_z", expr |-> "stack", reads |-> <<"R_zz", "omega_zz", "Z_zz">>, returns |-> "data"],
      [name |-> "e_zeta_zz", data |-> {"R_zzz", "Z_zzz", "omega_zzz"},
       key |-> "e_zeta_zz", expr |-> "stack", reads |-> <<"R_zzz", "omega_zzz", "Z_zzz">>, returns |-> "data"] }

ComputeFunctions == CoreCartesian \cup BasisVectorsCartesian

\* the position in heap of the data dict handed to a compute function
DataRef == 1

\* the array stored under a dependency key the functions do not compute
base_value(k) == <<k>>

\* the data dict holding the declared dependencies of the functions fs
base_data(fs) ==
    [k \in UNION {f.data : f \in fs} |-> base_value(k)]

\* the right-hand side of the function's assignment
fun_value(f, d) ==
    CASE f.expr = "copy" -> d[f.reads[1]]
      [] f.expr = "stack" ->
            <<"array.T">> \o d[f.reads[1]] \o d[f.reads[2]] \o d[f.reads[3]]
      [] f.expr = "stack_plus_one" ->
            <<"array.T">> \o d[f.reads[1]] \o <<"1 +">> \o d[f.reads[2]]
                \o d[f.reads[3]]

\* data[f.key] = ... on the dict d
setitem(d, k, v) == [j \in DOMAIN d \cup {k} |-> IF j = k THEN v ELSE d[j]]

\* a function that empties the dict before it stores its result
compute_fun_clear(f, h, ref) ==
    IF ~(Range(f.reads) \subseteq DOMAIN h[ref])
    THEN [err |-> KeyError, heap |-> h, reads |-> {}, written |-> {},
          returns |-> 0]
    ELSE [err |-> NoError,
          heap |-> [h EXCEPT ![ref] = setitem(<<>>, f.key, fun_value(f, h[ref]))],
          reads |-> Range(f.reads), written |-> {f.key},
          returns |-> IF f.returns = "data" THEN ref ELSE 0]

\* one call f(params, transforms, profiles, data): the body reads data[k]
\* for the keys of its expression (a missing key raises KeyError), assigns
\* data[f.key] in place and returns what its return statement names
compute_fun(f, h, ref) ==
    IF ~(Range(f.reads) \subseteq DOMAIN h[ref])
    THEN [err |-> KeyError, heap |-> h, reads |-> {}, written |-> {},
          returns |-> 0]
    ELSE [err |-> NoError,
          heap |-> [h EXCEPT ![ref] = setitem(h[ref], f.key, fun_value(f, h[ref]))],
          reads |-> Range(f.reads), written |-> {f.key},
          returns |-> IF f.returns = "data" THEN ref ELSE 0]

\* data holds the declared dependencies of one or two of the functions
InitCompute ==
    /\ eq = Equilibrium(0, NumModes)
    /\ constraints = <<>>
    /\ objectives = <<>>
    /\ self = NewObjectiveFunction
    /\ call = Call("new", NoValue, NoError, NoValue)
    /\ derivative = NoDerivative
    /\ \E f, g \in ComputeFunctions : heap = <<base_data({f, g})>>

\* a registered function is called once its declared dependencies are in data
ComputeFun ==
    \E f \in ComputeFunctions :
       /\ f.data \subseteq DOMAIN heap[DataRef]
       /\ \E r \in {compute_fun(f, heap, DataRef)} :
             /\ heap' = r.heap
             /\ call' = [Call("compute_fun", NoValue, r.err, NoValue)
                           EXCEPT !.kw = [name |-> f.name, reads |-> r.reads,
                                          written |-> r.written,
                                          returns |-> r.returns]]
       /\ UNCHANGED <<eq, objectives, constraints, self, derivative>>

NextCompute == ComputeFun

SpecCompute == InitCompute /\ [][NextCompute]_vars

-----------------------------------------------------------------------------
(* Properties.                                                             *)

\* A @ Z == 0
AZIsZero(A, Z) ==
    \A k \in 1..Len(A) : \A c \in 1..Len(Z[1]) :
        QSum([j \in 1..Len(Z) |-> QMul(A[k][j], Z[j][c])]) = R(0)

\* C1: for every built ObjectiveFunction with at least one constraint,
\* A @ y0 == b and A @ Z == 0, right after build and after every later
\* rebuild_constraints, for any tuple of linear constraints.
C1_ParticularSolutionAndNullSpace ==
    (self.built /\ Len(constraints) >= 1) =>
        /\ MatVec(self.A, self.y0) = self.b
        /\ AZIsZero(self.A, self.Z)

\* C2: on a built ObjectiveFunction, project(recover(x)) == x for every
\* vector x of length dim_x.
C2_ProjectRecover ==
    (call.op = "project" /\ call.chained) =>
        /\ call.err = NoError
        /\ AllEqual(call.ret, call.src)

\* a round trip of an x with two or more entries, one of them not zero,
\* through an ObjectiveFunction with constraints and a non-zero y0
C2_Witness ==
    /\ call.op = "project" /\ call.chained /\ call.err = NoError
    /\ Len(constraints) >= 1
    /\ self.dim_x >= 2
    /\ self.y0 # Zeros(self.dim_y)
    /\ call.src.v # Zeros(self.dim_x)

\* y satisfies the linear constraints A @ y == b
Feasible(s, y) == Len(constraints) = 0 \/ MatVec(s.A, y) = s.b

\* C3: on a built ObjectiveFunction, recover(project(y)) == y for every y
\* of length dim_y with A @ y == b.
C3_RecoverProject ==
    (call.op = "recover" /\ call.chained /\ Feasible(self, call.src.v)) =>
        /\ call.err = NoError
        /\ AllEqual(call.ret, call.src)

\* the build of the scenario: the one constraint, no residual objective
ScenarioBuilt ==
    /\ call.op = "build"
    /\ Len(eq.bmodes) = ScenarioModes
    /\ objectives = <<>>

\* y0 of the scenario: the given values at the fixed coefficients (mode m is
\* at position ScenarioModes + 1 - m of the basis), 0 elsewhere
ScenarioY0 ==
    [j \in 1..ScenarioModes |->
        IF \E k \in 1..Len(ScenarioFixed) : ScenarioFixed[k] = ScenarioModes + 1 - j
        THEN ScenarioTarget[CHOOSE k \in 1..Len(ScenarioFixed) :
                                ScenarioFixed[k] = ScenarioModes + 1 - j]
        ELSE R(0)]

\* C4: building an ObjectiveFunction with only one constraint fixing 3 of 5
\* boundary coefficients to [1.0, 0.0, -0.5] succeeds, dim_x == dim_y - 3,
\* and y0 holds the given values at the fixed indices and 0 elsewhere.
C4_Scenario ==
    ScenarioBuilt =>
        /\ call.err = NoError
        /\ self.built
        /\ self.dim_x = self.dim_y - 3
        /\ self.y0 = ScenarioY0

\* the position, in what the caller passed, of the value for entry k of a
\* built fixed-coefficient objective
GivenPosition(o, e, k) ==
    IF o.allmodes THEN o.idx[k]
    ELSE FirstIndex(o.modes, basis_modes(o, e)[o.idx[k]])

\* the caller passed one target value per requested mode
PerModeTarget(o, e) ==
    /\ o.kind \in FixedKinds
    /\ None \notin Range(o.arg_target)
    /\ Len(o.arg_target) = num_modes(o, basis_modes(o, e))

\* C5: a fixed-coefficient objective built with one target value per
\* requested mode keeps them: after build every target entry is the value
\* supplied for that mode and every weight entry the weight supplied for it.
C5_GivenTargetKept ==
    \A i \in 1..Len(constraints) :
        (constraints[i].built /\ PerModeTarget(constraints[i], eq)) =>
            \A k \in 1..constraints[i].dim_f :
                /\ constraints[i].target[k] =
                     constraints[i].arg_target[GivenPosition(constraints[i], eq, k)]
                /\ constraints[i].weight[k] =
                     IF Len(constraints[i].arg_weight) = 1
                     THEN constraints[i].arg_weight[1]
                     ELSE constraints[i].arg_weight[GivenPosition(constraints[i], eq, k)]

\* C6: with an empty constraints tuple build eliminates nothing: Z is the
\* dim_y x dim_y identity, y0 the zero vector of length dim_y, dim_x ==
\* dim_y, and recover(x) == x and project(y) == y.
C6_NoConstraints ==
    (self.built /\ constraints = <<>>) =>
        /\ self.Z = Eye(self.dim_y)
        /\ self.y0 = Zeros(self.dim_y)
        /\ self.dim_x = self.dim_y
        /\ (call.op \in {"recover", "project"} /\ ~call.chained) =>
              /\ call.err = NoError
              /\ AllEqual(call.ret, call.arg)

\* recover of a non-zero x of two or more entries without constraints
C6_Witness ==
    /\ self.built /\ constraints = <<>>
    /\ self.dim_y >= 2
    /\ call.op = "recover" /\ call.err = NoError
    /\ call.arg.v # Zeros(self.dim_x)

\* the full state vector unpack_state slices: recover(x) or x itself
FullState(s, x) == IF Len(x) = s.dim_x THEN VAdd(s.y0, MatVec(s.Z, x)) ELSE x

\* C7: unpack_state(x) raises NotBuilt on an ObjectiveFunction that is not
\* built; on a built one it raises InvalidDimension exactly when len(x) is
\* neither dim_x nor dim_y, and otherwise returns y[y_idx[arg]] for every
\* used argument, y = recover(x) if len(x) == dim_x and y = x otherwise.
C7_UnpackState ==
    call.op = "unpack_state" =>
        IF ~self.built THEN call.err = NotBuilt
        ELSE IF Len(call.arg.v) \notin {self.dim_x, self.dim_y}
        THEN call.err = InvalidDimension
        ELSE /\ call.err = NoError
             /\ call.kw = [a \in self.args |->
                             Take(FullState(self, call.arg.v), self.y_idx[a])]

HasNonLinear == \E i \in 1..Len(constraints) : ~linear(constraints[i])

FirstNonLinear ==
    CHOOSE i \in 1..Len(constraints) :
        ~linear(constraints[i]) /\ \A j \in 1..(i - 1) : linear(constraints[j])

\* no residual objective has been built
NoObjectiveBuilt ==
    \A i \in 1..Len(objectives) : ~objectives[i].built /\ ~objectives[i].hasdim

\* C8 as amended: if a constraint is not linear, build raises, the
\* ObjectiveFunction stays unbuilt and no residual objective is built; the
\* error is 'Constraints must be linear.' exactly when every constraint
\* before the first non-linear one was built, and otherwise the error of
\* the constraint whose build failed.
C8_NonLinearConstraint ==
    (call.op = "build" /\ HasNonLinear) =>
        /\ call.err # NoError
        /\ ~self.built
        /\ NoObjectiveBuilt
        /\ (call.err = NotLinear) <=>
              \A j \in 1..(FirstNonLinear - 1) : constraints[j].built
        /\ (call.err # NotLinear) =>
              \E j \in 1..(FirstNonLinear - 1) :
                  /\ constraints[j].err = call.err
                  /\ \A k \in 1..(j - 1) : constraints[k].built
                  /\ \A k \in (j + 1)..Len(constraints) : ~constraints[k].hasdim

\* a build that a constraint with a weight of the wrong length ends before
\* the non-linear constraint is looked at
C8_Witness ==
    /\ call.op = "build" /\ HasNonLinear
    /\ FirstNonLinear = 2
    /\ call.err = ErrWeight
    /\ Len(objectives) >= 1

\* C8 as stated: if any constraint is not linear, build raises
\* 'Constraints must be linear.', the ObjectiveFunction stays unbuilt and no
\* residual objective has been built.
C8_Original ==
    (call.op = "build" /\ HasNonLinear) =>
        /\ call.err = NotLinear
        /\ ~self.built
        /\ NoObjectiveBuilt

\* C9: rebuild_constraints on an ObjectiveFunction that has not been built
\* always fails, for any number of constraints including zero.
C9_RebuildBeforeBuild ==
    (call.op = "rebuild_constraints" /\ ~self.built) => call.err # NoError

\* rebuild_constraints called first thing, without constraints
C9_Witness ==
    /\ call.op = "rebuild_constraints"
    /\ ~self.built
    /\ constraints = <<>>
    /\ Len(objectives) >= 1
    /\ NoObjectiveBuilt

\* C10: for every objective that does not override compute_scalar, and for
\* the composed ObjectiveFunction, compute_scalar(args) equals
\* 0.5 * sum(compute(args) ** 2).
C10_ComputeScalar ==
    /\ call.op = "objective.compute_scalar" =>
          call.ret = Arr0(QDiv(QSum(VMul(compute(objectives[call.who], call.arg.v),
                                         compute(objectives[call.who], call.arg.v))),
                               R(2)))
    /\ (call.op = "compute_scalar" /\ call.err = NoError) =>
          call.ret = Arr0(QDiv(QSum(VMul(of_compute(self, objectives, call.arg.v).ret.v,
                                         of_compute(self, objectives, call.arg.v).ret.v)),
                               R(2)))

\* the given array has more than one element and not dim_f elements
WrongLength(v, o) == Len(v) > 1 /\ Len(v) # o.dim_f

\* the two dimension-mismatch errors of _check_dimensions
DimensionErrors == {ErrTarget, ErrWeight}

\* C11: building an objective, or assigning its target or weight after
\* build, with a target or weight that has more than one element and whose
\* length differs from dim_f fails with the dimension-mismatch error; the
\* array is never accepted or resized.
C11_WrongLengthRejected ==
    /\ (call.op = "objective.build" /\ objectives[1].hasdim
          /\ (\/ WrongLength(objectives[1].arg_target, objectives[1])
              \/ WrongLength(objectives[1].arg_weight, objectives[1])))
         => call.err \in DimensionErrors
    /\ (call.op \in {"set_target", "set_weight"} /\ objectives[1].built
          /\ WrongLength(call.arg.v, objectives[1]))
         => call.err \in DimensionErrors

\* M has the shape (rows, cols)
HasShape(M, rows, cols) ==
    /\ Len(M) = rows
    /\ \A k \in 1..Len(M) : Len(M[k]) = cols

\* every entry of the matrix M is zero
AllZero(M) == \A k \in 1..Len(M) : \A j \in 1..Len(M[k]) : M[k][j] = R(0)

RecognizedModes == {"fwd", "rev", "grad", "hess", "jvp"}

\* C13: for both AutoDiffDerivative and FiniteDiffDerivative, constructing
\* with a mode outside {'fwd', 'rev', 'grad', 'hess', 'jvp'} raises the
\* ValueError during construction, and constructing with a mode inside
\* that set succeeds and yields an object of that mode.
C13_ModeChecked ==
    call.op = "derivative.new" =>
        /\ call.err = InvalidMode <=> call.kw.mode \notin RecognizedModes
        /\ call.err = NoError <=> call.kw.mode \in RecognizedModes
        /\ call.err = NoError =>
              /\ derivative.cls = call.kw.cls
              /\ derivative.mode = call.kw.mode
              /\ derivative.compute # ""

\* a FiniteDiffDerivative constructor has just refused a mode
C13_Witness ==
    /\ call.op = "derivative.new"
    /\ call.kw.cls = "FiniteDiffDerivative"
    /\ call.err = InvalidMode

\* C14: in 'jvp' mode the automatic-differentiation strategy differentiates
\* along a tangent tuple whose entry at position argnum is the supplied v
\* and whose entry for every other positional argument is zero.
C14_JvpTangents ==
    call.op = "derivative.jvp" =>
        \A k \in 1..derivative.nargs :
            call.kw.tangents[k] = IF k = derivative.argnum + 1 THEN call.kw.v ELSE R(0)

\* C15: when BroydenJacobian.compute(x) is called with a step norm
\* ||x - previous x|| below minstep, the returned Jacobian is identical to
\* the estimate held before the call and fun is not evaluated.
C15_SmallStepNoUpdate ==
    [][(/\ derivative.cls = "BroydenJacobian"
        /\ call'.op = "broyden.compute"
        /\ derivative'.calls = derivative.calls + 1
        /\ StepBelow(VSub(call'.arg.v, derivative.x1), derivative.minstep))
       => (/\ call'.ret = Arr2(derivative.J)
           /\ derivative'.J = derivative.J
           /\ derivative'.evals = derivative.evals)]_vars

\* a compute call has just skipped a step that is below minstep but not zero
C15_Witness ==
    /\ call.op = "broyden.compute"
    /\ derivative.cls = "BroydenJacobian"
    /\ derivative.x1 # derivative.x0
    /\ StepBelow(VSub(derivative.x1, derivative.x0), derivative.minstep)
    /\ derivative.evals = 0

\* C16: BlockJacobian built with num_blocks = k, for any k dividing the
\* output dimension N, can be built and returns the same Jacobian as the
\* unblocked computation.
C16_BlocksEqualUnblocked ==
    /\ (call.op = "block.new" /\ call.kw.block_size = 0 /\ call.kw.num_blocks # 0
          /\ call.kw.N % call.kw.num_blocks = 0)
         => call.err = NoError
    /\ (call.op = "block.compute" /\ derivative.N % derivative.num_blocks = 0)
         => call.ret = Arr2(full_jacobian(call.arg.v, derivative.N))

\* the inputs the compute function declares that cannot be made: a
\* transform whose derivs key data_index[f] lacks, a profile that is None
Unavailable(params, keys, avail) ==
    {a \in Range(params) :
        \/ a \in TransformNames /\ derivs_key(a) # "" /\ derivs_key(a) \notin keys
        \/ a \in ProfileNames /\ a \notin avail}

\* C17: building a GenericObjective when an input its compute function
\* declares is not available fails with a MissingInput error; it never
\* fails with a key or attribute error and never hands a None input on to
\* the compute function.
C17_MissingInput ==
    (call.op = "generic.build"
       /\ Unavailable(call.kw.params, call.kw.keys, call.kw.avail) # {})
      => /\ call.err \notin {NoError, KeyError, AttributeError}
         /\ \A i \in 1..Len(call.kw.inputs) :
               call.kw.inputs[i][1] \in Unavailable(call.kw.params, call.kw.keys,
                                                    call.kw.avail)
                 => call.kw.inputs[i][2] # "None"

\* C18: on a built ObjectiveFunction, for every vector y of length dim_y,
\* make_feasible(y) equals recover(project(y)), is a vector that satisfies
\* the constraints, A @ make_feasible(y) == b, and make_feasible of it
\* returns it again.
C18_MakeFeasible ==
    /\ (call.op = "make_feasible" /\ ~call.chained /\ self.built) =>
          /\ call.err = NoError
          /\ call.ret.nd = 1
          /\ Len(call.ret.v) = self.dim_y
          /\ recover(self, project(self, call.arg).ret).err = NoError
          /\ AllEqual(call.ret, recover(self, project(self, call.arg).ret).ret)
          /\ Feasible(self, call.ret.v)
    /\ (call.op = "make_feasible" /\ call.chained) =>
          /\ call.err = NoError
          /\ call.ret = call.arg

\* the operations that need built state
NeedBuilt ==
    {"unpack_state", "compute", "compute_scalar", "callback", "project",
     "recover", "make_feasible", "x", "y", "grad", "hess", "jac", "compile",
     "scalar", "dim_x", "dim_y", "dim_c", "dim_f", "A", "Ainv", "b", "y0", "Z"}

\* C19: before the first successful build, every ObjectiveFunction
\* operation that needs built state fails with the NotBuilt error; none
\* returns a value or fails with another error.
C19_NotBuilt ==
    (call.op \in NeedBuilt /\ ~self.built) => call.err = NotBuilt

\* constraint.compute(**kw) is the zero vector for every constraint
ConstraintsSatisfied(kw) ==
    \A i \in 1..Len(constraints) :
        compute_kw(constraints[i], kw) = Zeros(constraints[i].dim_f)

\* C20: for every built ObjectiveFunction and every x of length dim_x,
\* each constraint is satisfied at the recovered state:
\* constraint.compute(**unpack_state(recover(x))) is the zero vector,
\* whatever the constraints' weights.
C20_ConstraintsSatisfied ==
    (call.op = "recover" /\ ~call.chained /\ call.err = NoError
       /\ self.built /\ Len(constraints) >= 1)
      => /\ unpack_state(self, call.ret.v).err = NoError
         /\ ConstraintsSatisfied(unpack_state(self, call.ret.v).kw)

\* positions in the trace t of the events of statement ev
EventsOf(t, ev) == {i \in 1..Len(t) : t[i][1] = ev}

\* the events of the loop ev are the elements 1, 2, .. in this order, with
\* n events of the other loop before them
InTupleOrder(t, ev, n) == \A i \in EventsOf(t, ev) : t[i][2] = i - n

UsedArgs ==
    UNION {Range(objectives[i].args) : i \in 1..Len(objectives)}
    \cup UNION {Range(constraints[i].args) : i \in 1..Len(constraints)}

\* the index array idx is a run of consecutive indices
Contiguous(idx) == \A k \in 1..(Len(idx) - 1) : idx[k + 1] = idx[k] + 1

RECURSIVE SumDims(_, _)
\* the sum of the dimensions dims of the arguments S
SumDims(S, dims) ==
    IF S = {} THEN 0
    ELSE LET a == CHOOSE x \in S : TRUE IN dims[a] + SumDims(S \ {a}, dims)

\* C22: after build, the index ranges y_idx[arg] of the arguments used by
\* any objective or constraint are contiguous, pairwise disjoint, laid out
\* in arg_order, and together cover exactly the indices of y (0..dim_y-1,
\* here 1..dim_y); every unused argument has an empty range; the sum of the
\* used arguments' dimensions is dim_y.
C22_StateVectorLayout ==
    self.built =>
        /\ \A a \in ArgSet \ UsedArgs : self.y_idx[a] = <<>>
        /\ \A a \in UsedArgs :
              /\ Len(self.y_idx[a]) = self.dimensions[a]
              /\ Contiguous(self.y_idx[a])
        /\ \A a \in UsedArgs : \A c \in UsedArgs :
              FirstIndex(arg_order, a) < FirstIndex(arg_order, c) =>
                 \A i \in Range(self.y_idx[a]) : \A j \in Range(self.y_idx[c]) : i < j
        /\ UNION {Range(self.y_idx[a]) : a \in UsedArgs} = 1..self.dim_y
        /\ SumDims(UsedArgs, self.dimensions) = self.dim_y

\* a built ObjectiveFunction whose used arguments are not neighbours in
\* arg_order
C22_Witness ==
    /\ self.built
    /\ {"Rb_lmn", "Psi"} \subseteq UsedArgs
    /\ "Zb_lmn" \notin UsedArgs
    /\ self.dim_y = NumModes + 1

\* the constraint c with the target update_target(e) gives it
Refreshed(c, e) ==
    [c EXCEPT !.target = IF c.kind = "FixedPsi" THEN <<e.Psi>>
                         ELSE Take(update_source(c, e), c.idx)]

\* C23: rebuild_constraints(eq) on a built ObjectiveFunction changes only
\* the constraints' targets, b and y0; A, Ainv, Z, dim_x, dim_y, dim_c,
\* dim_f, y_idx, built and compiled are left unchanged; afterwards b is the
\* concatenation of the constraints' refreshed targets in constraint order
\* and y0 == Ainv @ b.
C23_RebuildFrame ==
    [][(self.built /\ call'.op = "rebuild_constraints") =>
          /\ call'.err = NoError
          /\ self' = [self EXCEPT !.b = self'.b, !.y0 = self'.y0]
          /\ objectives' = objectives
          /\ constraints' = [i \in 1..Len(constraints) |-> Refreshed(constraints[i], eq')]
          /\ self'.b = StackB(constraints')
          /\ self'.y0 = MatVec(self'.Ainv, self'.b)]_vars

\* rebuild_constraints for another equilibrium has given two built
\* constraints new targets
C23_Witness ==
    /\ call.op = "rebuild_constraints" /\ call.err = NoError
    /\ self.built
    /\ Len(constraints) = 2
    /\ eq = Equilibrium(1, NumModes)
    /\ Len(self.b) >= 2
    /\ self.b = StackB(constraints)

\* the profiles the objective o holds
Holds(o) == (IF o.profile = 0 THEN {} ELSE {o.profile}) \cup Range(o.profiles)

\* C24: every profile whose grid an objective's build reassigns is a copy
\* private to that objective: no build changes the grid of a profile object
\* that belongs to the equilibrium, that the caller supplied, or that
\* another objective holds.
C24_ProfilesPrivate ==
    [][\A p \in 1..Len(heap) :
          heap'[p].grid # heap[p].grid =>
             /\ heap[p].origin = "copy"
             /\ \A j \in 1..Len(objectives) :
                   j # call'.who => p \notin Holds(objectives[j])]_vars

\* C25: FixedBoundaryZ built without an explicit target (target=None) uses
\* the boundary surface's own Z coefficients as target: after build,
\* target == surface.Z_lmn[idx], the value update_target(eq) would set.
C25_BoundaryZDefaultTarget ==
    (/\ call.op = "objective.build"
     /\ objectives[1].kind = "FixedBoundaryZ"
     /\ objectives[1].built
     /\ objectives[1].arg_target = <<None>>)
      => /\ objectives[1].target = Take(eq.Zb, objectives[1].idx)
         /\ objectives[1].target = update_target(objectives[1], eq).target

\* C26: in every state reachable by build followed by any number of
\* rebuild_constraints calls, y0 is a vector of length dim_y, including
\* when the ObjectiveFunction has no constraints.
C26_Y0Length == self.built => Len(self.y0) = self.dim_y

\* the functions the text lists for a mode
ModeFunctions(mode) ==
    CASE mode = "scalar" -> {"compute_scalar", "grad", "hess"}
      [] mode = "lsq"    -> {"compute", "jac"}
      [] OTHER           -> {"compute_scalar", "grad", "hess", "compute", "jac"}

\* C27: compile on an unbuilt ObjectiveFunction raises NotBuilt and leaves
\* compiled False.  On a built one with the autodiff backend, compile
\* evaluates at the zero vector of length dim_x exactly the functions of the
\* resolved mode ('scalar': compute_scalar, grad and hess; 'lsq': compute
\* and jac; 'all': all five; 'auto' is 'scalar' if the total dim_f == 1 and
\* 'lsq' otherwise), and compiled is True afterwards.
C27_Compile ==
    call.op = "compile" =>
        IF ~self.built
        THEN /\ call.err = NotBuilt
             /\ ~self.compiled
             /\ call.kw.evaluated = <<>>
        ELSE call.kw.use_jax =>
             /\ call.err = NoError
             /\ call.arg = Arr1(Zeros(self.dim_x))
             /\ Range(call.kw.evaluated) =
                  ModeFunctions(IF call.kw.mode = "auto"
                                THEN (IF self.dim_f = 1 THEN "scalar" ELSE "lsq")
                                ELSE call.kw.mode)
             /\ Len(call.kw.evaluated) = Cardinality(Range(call.kw.evaluated))
             /\ self.compiled

\* the declared data dependencies of the function registered under name
Declared(name) == UNION {f.data : f \in {g \in ComputeFunctions : g.name = name}}

C29_SecantConsistent ==
    derivative.cls = "BroydenJacobian" =>
       /\ derivative.f1 = vfun(derivative.x1, Len(derivative.f1))
       /\ (/\ call.op = "broyden.compute"
           /\ ~StepBelow(VSub(derivative.x1, derivative.x0), derivative.minstep))
          => MatVec(derivative.J, VSub(derivative.x1, derivative.x0))
                = VSub(vfun(derivative.x1, Len(derivative.f1)),
                       vfun(derivative.x0, Len(derivative.f1)))

\* C30: a compute call changes no array the caller already holds, neither
\* the J0 passed to the constructor nor a Jacobian an earlier call returned
C30_ReturnedUnchanged ==
    [][(derivative.cls = "BroydenJacobian" /\ call'.op = "broyden.compute")
          => \A i \in 1..Len(heap) : heap[i].held => heap'[i].v = heap[i].v]_vars

====
